---- MODULE Spec2Model ----
(***************************************************************************)
(* A model of the options valuation engine of quantkit                     *)
(* (src/src/options): the Black-Scholes pricer, the CRR binomial lattice,  *)
(* the Monte Carlo pricer and the implied-volatility solver.               *)
(*                                                                         *)
(* Numbers.  The engine computes in float64.  The model computes in        *)
(* fixed point: an integer n stands for the real n / SCALE, every product  *)
(* and quotient is rounded to the nearest unit (as IEEE arithmetic rounds  *)
(* to the nearest float), and exp, log, sqrt and the normal distribution   *)
(* are computed by series and tables to that resolution.                   *)
(***************************************************************************)
EXTENDS Integers, Sequences, FiniteSets, TLC

\* One unit of the fixed-point representation is 1 / SCALE; LIMB is its
\* square root, the base in which products are split.
LIMB == 10 * 10 * 10
SCALE == LIMB * LIMB

\* The largest magnitude a quotient may take; larger ones saturate here.
HUGE == 2000 * SCALE

Max(a, b) == IF a >= b THEN a ELSE b
Min(a, b) == IF a <= b THEN a ELSE b
Abs(a) == IF a < 0 THEN -a ELSE a
Sign(a, b) == IF (a < 0) # (b < 0) THEN -1 ELSE 1

\* n / d for integers, rounded to the nearest integer, halves away from
\* zero (d # 0).
RDiv(n, d) == Sign(n, d) * ((Abs(n) + Abs(d) \div 2) \div Abs(d))

\* a * b / SCALE for a, b >= 0, rounded to the nearest unit, computed limb
\* by limb so that no intermediate product leaves the machine integers.
MulAbs(a, b) ==
    LET a2 == a \div SCALE
        a1 == (a % SCALE) \div LIMB
        a0 == a % LIMB
        b2 == b \div SCALE
        b1 == (b % SCALE) \div LIMB
        b0 == b % LIMB
        low == (a1 * b0 + a0 * b1) * LIMB + a0 * b0
    IN  a2 * b2 * SCALE + (a2 * b1 + a1 * b2) * LIMB
          + a2 * b0 + a1 * b1 + a0 * b2 + (low + SCALE \div 2) \div SCALE

\* The product of two fixed-point numbers.
Mul(a, b) == Sign(a, b) * MulAbs(Abs(a), Abs(b))

RECURSIVE DivFrac(_, _, _, _)
\* k more decimal digits of r / b (r < b), the last one rounded.
DivFrac(r, b, k, acc) ==
    IF k = 0 THEN (IF 2 * r >= b THEN acc + 1 ELSE acc)
    ELSE DivFrac((r * 10) % b, b, k - 1, acc * 10 + (r * 10) \div b)

\* a / b for a >= 0, b > 0, by long division; saturates at HUGE.
DivAbs(a, b) ==
    IF a \div b >= HUGE \div SCALE THEN HUGE
    ELSE (a \div b) * SCALE + DivFrac(a % b, b, 6, 0)

\* The quotient of two fixed-point numbers (b # 0).
Div(a, b) == Sign(a, b) * DivAbs(Abs(a), Abs(b))

RECURSIVE SqrtIter(_, _)
SqrtIter(n, g) ==
    LET h == (g + n \div g) \div 2
    IN  IF h >= g THEN g ELSE SqrtIter(n, h)

\* floor of the integer square root.
ISqrt(n) == IF n <= 0 THEN 0 ELSE SqrtIter(n, n)

RECURSIVE SqrtNewton(_, _, _)
SqrtNewton(x, s, k) ==
    IF k = 0 THEN s ELSE SqrtNewton(x, (s + DivAbs(x, s) + 1) \div 2, k - 1)

\* np.sqrt of a non-negative fixed-point number.
Sqrt(x) == IF x <= 0 THEN 0 ELSE SqrtNewton(x, Max(ISqrt(x), 1) * LIMB, 4)

RECURSIVE ExpSeries(_, _, _, _)
\* The terms x^k / k! of e^x from the k-th on, for |x| <= 1/2.
ExpSeries(x, term, k, acc) ==
    IF term = 0 \/ k > 12 THEN acc
    ELSE ExpSeries(x, RDiv(Mul(term, x), k + 1), k + 1, acc + term)

ExpSmall(x) == ExpSeries(x, x, 1, SCALE)

\* h * h, times e^{+-1/SCALE} when the halved argument lost its last unit.
Squared(h, odd) == Mul(h, h) + odd * RDiv(Mul(h, h), SCALE)

RECURSIVE ExpPos(_)
\* e^x for x >= 0, by halving the argument and squaring.
ExpPos(x) ==
    IF x <= SCALE \div 2 THEN ExpSmall(x)
    ELSE Squared(ExpPos(x \div 2), x % 2)

RECURSIVE ExpNeg(_)
\* e^{-x} for x >= 0.
ExpNeg(x) ==
    IF x <= SCALE \div 2 THEN ExpSmall(-x)
    ELSE Squared(ExpNeg(x \div 2), -(x % 2))

\* np.exp.  Arguments above 7 saturate (the engine never reaches them with
\* the contracts of this model); below -15 the result is under one unit.
Exp(x) ==
    IF x >= 0 THEN ExpPos(Min(x, 7 * SCALE))
    ELSE IF x <= -(15 * SCALE) THEN 0
    ELSE ExpNeg(-x)

\* 1 + w/3 + w^2/5 + w^3/7 + w^4/9, by Horner's rule.
AtanhPoly(w) ==
    SCALE + Mul(w, SCALE \div 3 + Mul(w, SCALE \div 5
                  + Mul(w, SCALE \div 7 + Mul(w, SCALE \div 9))))

\* 2 atanh(z) = 2 z (1 + z^2/3 + z^4/5 + ..)
TwoAtanh(z) == 2 * Mul(z, AtanhPoly(Mul(z, z)))

RECURSIVE Ln(_)
\* np.log of a positive fixed-point number: halve or double into
\* [3/4, 3/2], then 2 atanh((y - 1) / (y + 1)).
Ln(y) ==
    IF y > (3 * SCALE) \div 2 THEN (693 * LIMB + 147) + Ln(RDiv(y, 2))
    ELSE IF y < (3 * SCALE) \div 4 THEN Ln(2 * y) - (693 * LIMB + 147)
    ELSE TwoAtanh(Div(y - SCALE, y + SCALE))

\* The standard normal distribution function at 0.0, 0.1, .. 5.1.
CdfTable ==
    << 500000, 539828, 579260, 617911, 655422, 691462,
       725747, 758036, 788145, 815940, 841345, 864334,
       884930, 903200, 919243, 933193, 945201, 955435,
       964070, 971283, 977250, 982136, 986097, 989276,
       991802, 993790, 995339, 996533, 997445, 998134,
       998650, 999032, 999313, 999517, 999663, 999767,
       999841, 999892, 999928, 999952, 999968, 999979,
       999987, 999991, 999995, 999997, 999998, 999999,
       999999, 1000000, 1000000, 1000000 >>

\* Linear interpolation between two table entries lo and hi.
Interpolate(lo, hi, fraction) == lo + Mul(hi - lo, fraction)

\* Linear interpolation in the table; 1 from 5.0 on.
NormCdfPos(x) ==
    IF x >= 5 * SCALE THEN SCALE
    ELSE Interpolate(CdfTable[x \div (SCALE \div 10) + 1],
                     CdfTable[x \div (SCALE \div 10) + 2],
                     (x % (SCALE \div 10)) * 10)

\* scipy.stats.norm.cdf
NormCdf(x) == IF x >= 0 THEN NormCdfPos(x) ELSE SCALE - NormCdfPos(-x)

\* scipy.stats.norm.pdf: exp(-x^2 / 2) / sqrt(2 pi); under one unit from 6 on.
NormPdf(x) ==
    IF Abs(x) >= 6 * SCALE THEN 0
    ELSE Mul(Exp(-RDiv(Mul(x, x), 2)), 398 * LIMB + 942)

(***************************************************************************)
(* State.                                                                  *)
(*   obj   the object the caller holds: [cls |-> "None"] before a          *)
(*         constructor has returned, else the instance's fields.           *)
(*   pc    "idle" between calls, else the position inside the running      *)
(*         method.                                                         *)
(*   call  the running (or last) call: its method name and arguments.      *)
(*   loc   the local variables of the running method.                      *)
(*   ret   what the last call handed to the caller: nothing yet, a value,  *)
(*         or a raised exception with the place that raised it.            *)
(*   res   the values the caller has received from this object, by         *)
(*         method name.                                                    *)
(***************************************************************************)
VARIABLES obj, pc, call, loc, ret, res, np_random

vars == <<obj, pc, call, loc, ret, res, np_random>>

NoObject == [cls |-> "None"]
NoCall == [op |-> "none"]
NoLocals == [op |-> "none"]
NoReturn == [kind |-> "none"]
Value(v) == [kind |-> "value", v |-> v]
Raise(exc, site) == [kind |-> "raise", exc |-> exc, site |-> site]

\* The largest number of lattice steps N the model constructs.
MaxN == 3

\* Contracts with S, K, T, sigma > 0.
ValidContracts ==
    [S : {80 * SCALE, 100 * SCALE, 120 * SCALE},
     K : {100 * SCALE},
     T : {SCALE},
     r : {-500 * LIMB, -50 * LIMB, 0, 50 * LIMB, 500 * LIMB},
     sigma : {200 * LIMB, 400 * LIMB}]

\* Contracts with one non-positive field among S, K, T, sigma.
BadContracts ==
    { [S |-> 0, K |-> 100 * SCALE, T |-> SCALE, r |-> 50 * LIMB, sigma |-> 200 * LIMB],
      [S |-> -(100 * SCALE), K |-> 100 * SCALE, T |-> SCALE, r |-> 50 * LIMB, sigma |-> 200 * LIMB],
      [S |-> 100 * SCALE, K |-> 0, T |-> SCALE, r |-> 50 * LIMB, sigma |-> 200 * LIMB],
      [S |-> 100 * SCALE, K |-> 100 * SCALE, T |-> 0, r |-> 50 * LIMB, sigma |-> 200 * LIMB],
      [S |-> 100 * SCALE, K |-> 100 * SCALE, T |-> -SCALE, r |-> 50 * LIMB, sigma |-> 200 * LIMB],
      [S |-> 100 * SCALE, K |-> 100 * SCALE, T |-> SCALE, r |-> 50 * LIMB, sigma |-> 0],
      [S |-> 100 * SCALE, K |-> 100 * SCALE, T |-> SCALE, r |-> 0, sigma |-> -(200 * LIMB)] }

Contracts == ValidContracts \cup BadContracts

PositiveContract(c) == c.S > 0 /\ c.K > 0 /\ c.T > 0 /\ c.sigma > 0

\* numpy's process-global generator before any np.random.seed: the seed
\* it was given (0 for none) and its internal state.
Unseeded == [seed |-> 0, state |-> 0]

Init ==
    /\ obj = NoObject
    /\ pc = "idle"
    /\ call = NoCall
    /\ loc = NoLocals
    /\ ret = NoReturn
    /\ res = << >>
    /\ np_random = Unseeded

(***************************************************************************)
(* BinomialTree (binomial_tree.py)                                         *)
(***************************************************************************)

RECURSIVE Pow(_, _)
\* x ** n for an integer n >= 0.
Pow(x, n) == IF n = 0 THEN SCALE ELSE Mul(Pow(x, n - 1), x)

\* The fields BinomialTree.__init__ derives.  nan records that p is not a
\* number: sqrt of a negative dt, or the division by u - d = 0.
BinomialParams(c, N) ==
    LET dt == RDiv(c.T, N)
        u == Exp(Mul(c.sigma, Sqrt(dt)))
        d == Div(SCALE, u)
        nan == dt < 0 \/ u = d
        p == IF nan THEN 0 ELSE Div(Exp(Mul(c.r, dt)) - d, u - d)
    IN  [dt |-> dt, u |-> u, d |-> d, p |-> p, q |-> SCALE - p, nan |-> nan]

\* A check of the upper end only: if self.p > 1.
ProbabilityInvalid_UpperOnly(bp) == bp.p > SCALE

\* if not 0 <= self.p <= 1: raise ValueError
ProbabilityInvalid(bp) == bp.nan \/ ~(0 <= bp.p /\ bp.p <= SCALE)

BinomialTree_init(c, N) ==
    /\ pc = "idle"
    /\ obj = NoObject
    /\ ret = NoReturn
    /\ call' = [op |-> "BinomialTree.__init__", c |-> c, N |-> N]
    /\ LET bp == BinomialParams(c, N)
       IN  IF ProbabilityInvalid(bp)
           THEN /\ obj' = NoObject
                /\ ret' = Raise("ValueError", "model")
           ELSE /\ obj' = [cls |-> "BinomialTree", S |-> c.S, K |-> c.K, T |-> c.T,
                           r |-> c.r, sigma |-> c.sigma, N |-> N, dt |-> bp.dt,
                           u |-> bp.u, d |-> bp.d, p |-> bp.p, q |-> bp.q]
                /\ ret' = Value(0)
    /\ UNCHANGED <<np_random, pc, loc, res>>

\* A tree whose down moves are counted by the step: S * u^j * d^i.
build_stock_tree_DownByStep(t) ==
    [i \in 0..t.N |-> [j \in 0..t.N |->
        IF j <= i THEN Mul(Mul(t.S, Pow(t.u, j)), Pow(t.d, i)) ELSE 0]]

\* stock_tree[i][j] = S * (u ** j) * (d ** (i - j)) for j <= i, zero elsewhere.
build_stock_tree(t) ==
    [i \in 0..t.N |-> [j \in 0..t.N |->
        IF j <= i THEN Mul(Mul(t.S, Pow(t.u, j)), Pow(t.d, i - j)) ELSE 0]]

\* The payoff of an option of the given kind at a stock price.
Payoff(kind, K, price) ==
    IF kind = "call" THEN Max(price - K, 0) ELSE Max(K - price, 0)

LatticeOps ==
    {"price_european_call", "price_european_put",
     "price_american_call", "price_american_put"}

KindOf(op) == IF op \in {"price_european_call", "price_american_call"} THEN "call" ELSE "put"
StyleOf(op) == IF op \in {"price_european_call", "price_european_put"} THEN "european" ELSE "american"

\* The option tree after the terminal-payoff loop: zeros but for row N.
TerminalTree(t, kind, stock_tree) ==
    [i \in 0..t.N |-> [j \in 0..t.N |->
        IF i = t.N THEN Payoff(kind, t.K, stock_tree[t.N][j]) ELSE 0]]

\* A pricing method up to the start of its backward loop.
LatticeBegin(op) ==
    /\ pc = "idle"
    /\ obj.cls = "BinomialTree"
    /\ LET st == build_stock_tree(obj)
       IN  loc' = [op |-> op,
                   stock_tree |-> st,
                   option_tree |-> TerminalTree(obj, KindOf(op), st),
                   discount_factor |-> Exp(Mul(-obj.r, obj.dt)),
                   i |-> obj.N - 1,
                   j |-> 0]
    /\ call' = [op |-> op]
    /\ pc' = "induct"
    /\ ret' = NoReturn
    /\ UNCHANGED <<np_random, obj, res>>

price_european_call == LatticeBegin("price_european_call")
price_european_put == LatticeBegin("price_european_put")
price_american_call == LatticeBegin("price_american_call")
price_american_put == LatticeBegin("price_american_put")

\* The expectation with the two probabilities exchanged.
Continuation_Swapped(t, disc, up_value, down_value) ==
    Mul(disc, Mul(t.q, up_value) + Mul(t.p, down_value))

\* discount_factor * (p * up_value + q * down_value)
Continuation(t, disc, up_value, down_value) ==
    Mul(disc, Mul(t.p, up_value) + Mul(t.q, down_value))

\* A node value without the early-exercise comparison.
NodeValue_NoExercise(t, op, disc, stock_tree, option_tree, i, j) ==
    Mul(disc, Mul(t.p, option_tree[i + 1][j + 1]) + Mul(t.q, option_tree[i + 1][j]))

\* A node value whose down value is read from the row being written.
NodeValue_SameRow(t, op, disc, stock_tree, option_tree, i, j) ==
    LET cont == Continuation(t, disc, option_tree[i + 1][j + 1],
                             IF j > 0 THEN option_tree[i][j - 1] ELSE option_tree[i + 1][j])
    IN  IF StyleOf(op) = "european" THEN cont
        ELSE Max(cont, Payoff(KindOf(op), t.K, stock_tree[i][j]))

\* The value a pricing method stores at node (i, j).
NodeValue(t, op, disc, stock_tree, option_tree, i, j) ==
    LET cont == Continuation(t, disc, option_tree[i + 1][j + 1], option_tree[i + 1][j])
    IN  IF StyleOf(op) = "european" THEN cont
        ELSE Max(cont, Payoff(KindOf(op), t.K, stock_tree[i][j]))

\* One pass of the inner loop: node (i, j), then the next j, or the next i.
InductionStep ==
    /\ pc = "induct"
    /\ loc.i >= 0
    /\ LET i == loc.i
           j == loc.j
           v == NodeValue(obj, loc.op, loc.discount_factor,
                          loc.stock_tree, loc.option_tree, i, j)
       IN  loc' = [loc EXCEPT !.option_tree[i][j] = v,
                              !.j = IF j = i THEN 0 ELSE j + 1,
                              !.i = IF j = i THEN i - 1 ELSE i]
    /\ UNCHANGED <<np_random, obj, pc, call, ret, res>>

\* A return that keeps the price in a field of the tree.
LatticeReturn_KeepsPrice ==
    /\ pc = "induct"
    /\ loc.i < 0
    /\ ret' = Value(loc.option_tree[0][0])
    /\ res' = (loc.op :> loc.option_tree[0][0]) @@ res
    /\ obj' = [obj EXCEPT !.S = loc.option_tree[0][0]]
    /\ pc' = "idle"
    /\ UNCHANGED <<np_random, call, loc>>

\* return option_tree[0][0]
LatticeReturn ==
    /\ pc = "induct"
    /\ loc.i < 0
    /\ ret' = Value(loc.option_tree[0][0])
    /\ res' = (loc.op :> loc.option_tree[0][0]) @@ res
    /\ pc' = "idle"
    /\ UNCHANGED <<np_random, obj, call, loc>>

\* Row i of the option tree of get_early_exercise_boundary, written from
\* row i + 1.
BoundaryRow(t, op, disc, stock_tree, option_tree, i) ==
    [option_tree EXCEPT
        ![i] = [j \in 0..t.N |->
                   IF j <= i THEN NodeValue(t, op, disc, stock_tree, option_tree, i, j)
                   ELSE option_tree[i][j]]]

RECURSIVE BoundaryTree(_, _, _, _, _, _)
\* The option tree after the rows i, i - 1, ..., 0 have been written.
BoundaryTree(t, op, disc, stock_tree, option_tree, i) ==
    IF i < 0 THEN option_tree
    ELSE BoundaryTree(t, op, disc, stock_tree,
                      BoundaryRow(t, op, disc, stock_tree, option_tree, i), i - 1)

\* exercise_optimal of step i: the stock prices of the nodes where
\* exercise_value > continuation_value and exercise_value > 0.
ExerciseOptimal(t, kind, disc, stock_tree, option_tree, i) ==
    { stock_tree[i][j] : j \in
        { j \in 0..i :
            /\ Payoff(kind, t.K, stock_tree[i][j])
                  > Continuation(t, disc, option_tree[i + 1][j + 1], option_tree[i + 1][j])
            /\ Payoff(kind, t.K, stock_tree[i][j]) > 0 } }

\* The lowest price of exercise_optimal whatever the option type.
CriticalPrice_AlwaysMin(kind, prices) ==
    IF prices = {} THEN << >>
    ELSE <<CHOOSE x \in prices : \A y \in prices : x <= y>>

\* boundary[i]: min(exercise_optimal) for a call, max(exercise_optimal)
\* for a put, None (here << >>) when no node of the step exercises.
CriticalPrice(kind, prices) ==
    IF prices = {} THEN << >>
    ELSE IF kind = "call" THEN <<CHOOSE x \in prices : \A y \in prices : x <= y>>
    ELSE <<CHOOSE x \in prices : \A y \in prices : x >= y>>

Boundary(t, kind, disc, stock_tree, option_tree) ==
    [i \in 0..(t.N - 1) |->
        CriticalPrice(kind, ExerciseOptimal(t, kind, disc, stock_tree, option_tree, i))]

\* get_early_exercise_boundary(option_type): 'call', or else a put.
EarlyExerciseBoundary(t, option_type, kind, op, stock_tree) ==
    Boundary(t, kind, Exp(Mul(-t.r, t.dt)), stock_tree,
             BoundaryTree(t, op, Exp(Mul(-t.r, t.dt)), stock_tree,
                          TerminalTree(t, kind, stock_tree), t.N - 1))

OptionTypes == {"call", "put"}

get_early_exercise_boundary(option_type) ==
    /\ pc = "idle"
    /\ obj.cls = "BinomialTree"
    /\ call' = [op |-> "get_early_exercise_boundary", option_type |-> option_type]
    /\ ret' = Value(EarlyExerciseBoundary(
                       obj, option_type,
                       IF option_type = "call" THEN "call" ELSE "put",
                       IF option_type = "call" THEN "price_american_call"
                       ELSE "price_american_put",
                       build_stock_tree(obj)))
    /\ loc' = [op |-> "get_early_exercise_boundary",
                option_tree |->
                    LET op == IF option_type = "call" THEN "price_american_call"
                              ELSE "price_american_put"
                        st == build_stock_tree(obj)
                    IN  BoundaryTree(obj, op, Exp(Mul(-obj.r, obj.dt)), st,
                                     TerminalTree(obj, KindOf(op), st), obj.N - 1)]
    /\ UNCHANGED <<np_random, obj, pc, res>>

NextLattice ==
    \/ \E c \in Contracts, N \in 1..MaxN : BinomialTree_init(c, N)
    \/ \E option_type \in OptionTypes : get_early_exercise_boundary(option_type)
    \/ price_european_call
    \/ price_european_put
    \/ price_american_call
    \/ price_american_put
    \/ InductionStep
    \/ LatticeReturn

SpecLattice == Init /\ [][NextLattice]_vars

(***************************************************************************)
(* BlackScholes (black_scholes.py)                                         *)
(***************************************************************************)

\* The validation of BlackScholes.__init__: some of S, K, T, sigma is <= 0.
BSInvalid(c) == c.S <= 0 \/ c.K <= 0 \/ c.T <= 0 \/ c.sigma <= 0

\* Volatilities from here on are beyond the range in which sigma ** 2 is
\* computed; d1 and d2 are at their limits +HUGE and -HUGE there.
BigSigma == 40 * SCALE

\* d1 = numerator / denominator
D1(numerator, denominator) ==
    IF denominator = 0 THEN Sign(numerator, 1) * HUGE
    ELSE Div(numerator, denominator)

\* <<d1, d2>> with d2 = d1 - sigma sqrt(T)
D1D2(d1, denominator) == <<d1, d1 - denominator>>

\* _d1_d2 of a validated contract, as <<d1, d2>>.
d1_d2(c) ==
    IF c.sigma >= BigSigma THEN <<HUGE, -HUGE>>
    ELSE D1D2(D1(Ln(Div(c.S, c.K))
                   + Mul(c.r + RDiv(Mul(c.sigma, c.sigma), 2), c.T),
                 Mul(c.sigma, Sqrt(c.T))),
              Mul(c.sigma, Sqrt(c.T)))

\* C = S N(d1) - K e^{-rT} N(d2)
CallFormula(c, d) ==
    Mul(c.S, NormCdf(d[1])) - Mul(Mul(c.K, Exp(Mul(-c.r, c.T))), NormCdf(d[2]))

\* A put discounted with N(-d1) in both terms.
PutFormula_SameTail(c, d) ==
    Mul(Mul(c.K, Exp(Mul(-c.r, c.T))), NormCdf(-d[1])) - Mul(c.S, NormCdf(-d[1]))

\* P = K e^{-rT} N(-d2) - S N(-d1)
PutFormula(c, d) ==
    Mul(Mul(c.K, Exp(Mul(-c.r, c.T))), NormCdf(-d[2])) - Mul(c.S, NormCdf(-d[1]))

call_price(c) == CallFormula(c, d1_d2(c))

put_price(c) == PutFormula(c, d1_d2(c))

\* The vega of greeks_call and greeks_put: S pdf(d1) sqrt(T) / 100.
vega(c) == RDiv(Mul(Mul(c.S, NormPdf(d1_d2(c)[1])), Sqrt(c.T)), 100)

\* gamma = pdf(d1) / (S sigma sqrt(T)), the same for a call and a put.
gamma(c, d) == Div(NormPdf(d[1]), Mul(Mul(c.S, c.sigma), Sqrt(c.T)))

\* The two terms of theta: -S pdf(d1) sigma / (2 sqrt(T)), and
\* r K e^{-rT} N(x) with x = d2 for a call and -d2 for a put.
ThetaDecay(c, d) == Div(Mul(Mul(-c.S, NormPdf(d[1])), c.sigma), 2 * Sqrt(c.T))

ThetaCarry(c, x) == Mul(Mul(Mul(c.r, c.K), Exp(Mul(-c.r, c.T))), NormCdf(x))

\* K T e^{-rT} N(x) / 100
RhoTerm(c, x) == RDiv(Mul(Mul(Mul(c.K, c.T), Exp(Mul(-c.r, c.T))), NormCdf(x)), 100)

\* greeks_call and greeks_put, as the OptionPrice they return.
GreeksCall(c, d) ==
    [price |-> CallFormula(c, d),
     delta |-> NormCdf(d[1]),
     gamma |-> gamma(c, d),
     theta |-> RDiv(ThetaDecay(c, d) - ThetaCarry(c, d[2]), 365),
     vega |-> vega(c),
     rho |-> RhoTerm(c, d[2])]

GreeksPut(c, d) ==
    [price |-> PutFormula(c, d),
     delta |-> NormCdf(d[1]) - SCALE,
     gamma |-> gamma(c, d),
     theta |-> RDiv(ThetaDecay(c, d) + ThetaCarry(c, -d[2]), 365),
     vega |-> vega(c),
     rho |-> -RhoTerm(c, -d[2])]

greeks_call(c) == GreeksCall(c, d1_d2(c))

greeks_put(c) == GreeksPut(c, d1_d2(c))

BlackScholes_init(c) ==
    /\ pc = "idle"
    /\ obj = NoObject
    /\ ret = NoReturn
    /\ call' = [op |-> "BlackScholes.__init__", c |-> c]
    /\ IF BSInvalid(c)
       THEN /\ obj' = NoObject
            /\ ret' = Raise("ValueError", "validation")
       ELSE /\ obj' = [cls |-> "BlackScholes", S |-> c.S, K |-> c.K, T |-> c.T,
                       r |-> c.r, sigma |-> c.sigma]
            /\ ret' = Value(0)
    /\ UNCHANGED <<np_random, pc, loc, res>>

\* What a method of a BlackScholes returns.
BSResult(c, op) ==
    CASE op = "call_price" -> call_price(c)
      [] op = "put_price" -> put_price(c)
      [] op = "greeks_call" -> greeks_call(c)
      [] op = "greeks_put" -> greeks_put(c)

\* A pricing or Greeks method called on the object the caller holds.
BSPrice(op) ==
    /\ pc = "idle"
    /\ obj.cls = "BlackScholes"
    /\ ret' = Value(BSResult(obj, op))
    /\ res' = (op :> ret'.v) @@ res
    /\ call' = [op |-> op]
    /\ loc' = [op |-> op]
    /\ UNCHANGED <<np_random, obj, pc>>

bs_call_price == BSPrice("call_price")
bs_put_price == BSPrice("put_price")
bs_greeks_call == BSPrice("greeks_call")
bs_greeks_put == BSPrice("greeks_put")

NextBS ==
    \/ \E c \in Contracts : BlackScholes_init(c)
    \/ bs_call_price
    \/ bs_put_price
    \/ bs_greeks_call
    \/ bs_greeks_put

\* The analytic pricer alone.
SpecBS == Init /\ [][NextBS]_vars

(***************************************************************************)
(* ImpliedVolatilitySolver (implied_volatility.py)                         *)
(*                                                                         *)
(* scipy's brentq and newton are library code.  newton is modelled by its  *)
(* Newton-Raphson loop (maxiter passes of x <- x - f(x)/f'(x), raising     *)
(* RuntimeError on a zero derivative or on running out of passes); brentq  *)
(* by its contract: ValueError unless f(a) f(b) <= 0, then a bracketing    *)
(* search, here bisection, that ends within xtol or raises RuntimeError    *)
(* after maxiter passes.                                                   *)
(***************************************************************************)

\* The bounds of the bracketing search and of a plausible result.
SigmaLow == 10 * LIMB
SigmaHigh == 5 * SCALE
\* initial_guess = 0.3
InitialGuess == 300 * LIMB
\* tol = 1e-6 of newton, xtol = 1e-6 of brentq
IVTol == SCALE \div (LIMB * LIMB)
NewtonMaxIter == 50
BrentMaxIter == 100

\* The solver's contract at a trial volatility.
ContractAt(t, sigma) ==
    [S |-> t.S, K |-> t.K, T |-> t.T, r |-> t.r, sigma |-> sigma]

ModelPrice(kind, c) == IF kind = "call" THEN call_price(c) ELSE put_price(c)

\* objective(sigma) of a validated trial contract: model price - market price.
Objective(t, kind, market_price, sigma) ==
    ModelPrice(kind, ContractAt(t, sigma)) - market_price

\* The no-arbitrage bounds of solve_iv_call / solve_iv_put.
IntrinsicValue(kind, t) ==
    IF kind = "call" THEN Max(t.S - t.K, 0) ELSE Max(t.K - t.S, 0)

MaxValue(kind, t) ==
    IF kind = "call" THEN t.S ELSE Mul(t.K, Exp(Mul(-t.r, t.T)))

\* The arbitrage check without its upper bound.
ArbitrageViolation_LowerOnly(kind, t, market_price) ==
    market_price < IntrinsicValue(kind, t)

ArbitrageViolation(kind, t, market_price) ==
    market_price < IntrinsicValue(kind, t) \/ market_price > MaxValue(kind, t)

SolverContracts ==
    [S : {80 * SCALE, 100 * SCALE, 120 * SCALE},
     K : {100 * SCALE},
     T : {SCALE},
     r : {0, 50 * LIMB}]
    \cup
    { [S |-> 0, K |-> 100 * SCALE, T |-> SCALE, r |-> 50 * LIMB],
      [S |-> 100 * SCALE, K |-> 0, T |-> SCALE, r |-> 50 * LIMB],
      [S |-> 100 * SCALE, K |-> 100 * SCALE, T |-> 0, r |-> 50 * LIMB] }

ImpliedVolatilitySolver_init(t) ==
    /\ pc = "idle"
    /\ obj = NoObject
    /\ ret = NoReturn
    /\ call' = [op |-> "ImpliedVolatilitySolver.__init__", c |-> t]
    /\ obj' = [cls |-> "ImpliedVolatilitySolver", S |-> t.S, K |-> t.K, T |-> t.T, r |-> t.r]
    /\ ret' = Value(0)
    /\ UNCHANGED <<np_random, pc, loc, res>>

Methods == {"brent", "newton", "secant"}

\* The volatilities whose model prices are offered as market prices.
QuotedSigmas == {SigmaLow, 20 * LIMB, 200 * LIMB, InitialGuess, SCALE, 3 * SCALE}

\* The market prices offered to a solver: prices outside the no-arbitrage
\* bounds, the bounds themselves, and model prices at the quoted
\* volatilities.
MarketPrices(kind, t) ==
    {0, SCALE \div 2, 10 * SCALE, t.S, t.S + SCALE, 99 * SCALE}
    \cup (IF t.S > 0 /\ t.K > 0 /\ t.T > 0
          THEN {ModelPrice(kind, ContractAt(t, sg)) : sg \in QuotedSigmas}
          ELSE {})

\* The locals of a solve before either search has started.
SolveLocals(op, kind, market_price, method) ==
    [op |-> op, kind |-> kind, market_price |-> market_price, method |-> method,
     started |-> {}, evals |-> 0, caught |-> "none",
     p0 |-> 0, itr |-> 0, a |-> 0, b |-> 0, fa |-> 0, fb |-> 0, bitr |-> 0]

\* solve_iv_call / solve_iv_put up to the dispatch on method.
SolveIV(op, kind, market_price, method) ==
    /\ pc = "idle"
    /\ obj.cls = "ImpliedVolatilitySolver"
    /\ call' = [op |-> op, market_price |-> market_price, method |-> method]
    /\ LET l == SolveLocals(op, kind, market_price, method)
       IN  IF ArbitrageViolation(kind, obj, market_price)
           THEN /\ ret' = Raise("ValueError", "arbitrage")
                /\ loc' = l
                /\ pc' = "idle"
           ELSE IF method = "brent"
           THEN /\ ret' = NoReturn
                /\ loc' = l
                /\ pc' = "brent"
           ELSE IF method = "newton"
           THEN /\ ret' = NoReturn
                /\ loc' = [l EXCEPT !.p0 = InitialGuess, !.started = {"newton"}]
                /\ pc' = "newton"
           ELSE /\ ret' = Raise("ValueError", "method")
                /\ loc' = l
                /\ pc' = "idle"
    /\ UNCHANGED <<np_random, obj, res>>

\* A session solves for one quote: until a solve has returned a value any
\* quote may be tried, and after that the solve that returned it is the
\* one called again.
solve_iv_call ==
    /\ pc = "idle"
    /\ obj.cls = "ImpliedVolatilitySolver"
    /\ IF res = << >>
       THEN \E mp \in MarketPrices("call", obj) : \E method \in Methods :
                SolveIV("solve_iv_call", "call", mp, method)
       ELSE /\ call.op = "solve_iv_call"
            /\ SolveIV("solve_iv_call", "call", call.market_price, call.method)

solve_iv_put ==
    /\ pc = "idle"
    /\ obj.cls = "ImpliedVolatilitySolver"
    /\ IF res = << >>
       THEN \E mp \in MarketPrices("put", obj) : \E method \in Methods :
                SolveIV("solve_iv_put", "put", mp, method)
       ELSE /\ call.op = "solve_iv_put"
            /\ SolveIV("solve_iv_put", "put", call.market_price, call.method)

RECURSIVE Run(_, _, _)

\* Where a step of a solve leaves it: a value or an exception handed to the
\* caller, or the search to go on with.
Returns(v, l) == [ret |-> Value(v), loc |-> l, pc |-> "idle"]

Raises(exc, site, l) == [ret |-> Raise(exc, site), loc |-> l, pc |-> "idle"]

Continues(at, l) == [ret |-> NoReturn, loc |-> l, pc |-> at]

\* A test of the bounds that refuses only two positive values.
SameSign_PositiveOnly(fa, fb) == fa > 0 /\ fb > 0

\* brentq's test of the bounds: f(a) * f(b) > 0 is refused.
SameSign(fa, fb) == (fa > 0 /\ fb > 0) \/ (fa < 0 /\ fb < 0)

\* brentq at its bounds, given the objective there: refuse bounds that do
\* not bracket a root, return a bound that is a root, else start the search.
BrentBounds(l, fa, fb) ==
    IF SameSign(fa, fb)
    THEN Raises("ValueError", "convergence", [l EXCEPT !.fa = fa, !.fb = fb])
    ELSE IF fa = 0 THEN Returns(l.a, [l EXCEPT !.fa = fa, !.fb = fb])
    ELSE IF fb = 0 THEN Returns(l.b, [l EXCEPT !.fa = fa, !.fb = fb])
    ELSE Continues("brent_loop", [l EXCEPT !.fa = fa, !.fb = fb])

\* _solve_brent_call / _solve_brent_put up to the first pass of brentq: the
\* objective at both bounds.  A ValueError, from BlackScholes or from
\* brentq, is caught and raised again as the ValueError of the convergence
\* failure.
BrentEnter(t, l) ==
    IF BSInvalid(ContractAt(t, SigmaLow))
    THEN Raises("ValueError", "convergence",
                [l EXCEPT !.started = l.started \cup {"brent"},
                          !.evals = l.evals + 1])
    ELSE BrentBounds([l EXCEPT !.started = l.started \cup {"brent"},
                               !.evals = l.evals + 2,
                               !.a = SigmaLow, !.b = SigmaHigh],
                     Objective(t, l.kind, l.market_price, SigmaLow),
                     Objective(t, l.kind, l.market_price, SigmaHigh))

\* The bracket after the objective fm was found at its midpoint m.
Bisect(l, m, fm) ==
    IF fm = 0 THEN Returns(m, [l EXCEPT !.a = m, !.b = m, !.fa = 0, !.fb = 0])
    ELSE IF SameSign(fm, l.fa)
    THEN Continues("brent_loop", [l EXCEPT !.a = m, !.fa = fm])
    ELSE Continues("brent_loop", [l EXCEPT !.b = m, !.fb = fm])

\* A search that stops at a bracket of width 1e-2.
BrentPass_CoarseTolerance(t, l) ==
    IF l.b - l.a <= 10 * LIMB
    THEN Returns(IF Abs(l.fa) < Abs(l.fb) THEN l.a ELSE l.b, l)
    ELSE IF l.bitr >= BrentMaxIter
    THEN Raises("RuntimeError", "brentq", l)
    ELSE Bisect([l EXCEPT !.evals = l.evals + 1, !.bitr = l.bitr + 1],
                (l.a + l.b) \div 2,
                Objective(t, l.kind, l.market_price, (l.a + l.b) \div 2))

\* One pass of the bracketing search.
BrentPass(t, l) ==
    IF l.b - l.a <= IVTol
    THEN Returns(IF Abs(l.fa) < Abs(l.fb) THEN l.a ELSE l.b, l)
    ELSE IF l.bitr >= BrentMaxIter
    THEN Raises("RuntimeError", "brentq", l)
    ELSE Bisect([l EXCEPT !.evals = l.evals + 1, !.bitr = l.bitr + 1],
                (l.a + l.b) \div 2,
                Objective(t, l.kind, l.market_price, (l.a + l.b) \div 2))

\* A plausibility check of the lower end only.
Implausible_LowerOnly(iv) == iv < SigmaLow

\* if iv < 0.01 or iv > 5.0: raise ValueError
Implausible(iv) == iv < SigmaLow \/ iv > SigmaHigh

\* A handler of ValueError alone.
Caught_ValueErrorOnly(exc) == exc = "ValueError"

\* except (ValueError, RuntimeError): the exceptions of the Newton search
\* that the solver catches.
Caught(exc) == exc \in {"ValueError", "RuntimeError"}

\* The Newton search failed with exception exc at the given place: fall
\* back to the bracketing method if the exception is caught, else let it
\* reach the caller.
NewtonFails(exc, site, l) ==
    IF Caught(exc) THEN Continues("brent", [l EXCEPT !.caught = site])
    ELSE Raises(exc, site, l)

\* newton returned iv: the plausibility check, then the return.
NewtonConverged(iv, l) ==
    IF Implausible(iv) THEN NewtonFails("ValueError", "implausible", [l EXCEPT !.p0 = iv])
    ELSE Returns(iv, [l EXCEPT !.p0 = iv])

\* A pass that is not counted.
NewtonUpdate_Uncounted(l, p) ==
    IF Abs(p - l.p0) <= IVTol
    THEN NewtonConverged(p, l)
    ELSE Continues("newton", [l EXCEPT !.p0 = p])

\* The end of a pass: the new estimate p is returned if it is within tol of
\* the old one, else it becomes the estimate of the next pass.
NewtonUpdate(l, p) ==
    IF Abs(p - l.p0) <= IVTol
    THEN NewtonConverged(p, [l EXCEPT !.itr = l.itr + 1])
    ELSE Continues("newton", [l EXCEPT !.p0 = p, !.itr = l.itr + 1])

\* The body of a pass, given the objective fval and the derivative fder at
\* the estimate p0.
NewtonBody(l, fval, fder) ==
    IF fval = 0 THEN NewtonConverged(l.p0, [l EXCEPT !.evals = l.evals + 1])
    ELSE IF fder = 0
    THEN NewtonFails("RuntimeError", "zero derivative", [l EXCEPT !.evals = l.evals + 2])
    ELSE NewtonUpdate([l EXCEPT !.evals = l.evals + 2], l.p0 - Div(fval, fder))

\* One pass of newton's loop at the estimate p0.
NewtonPass(t, l) ==
    IF l.itr >= NewtonMaxIter
    THEN NewtonFails("RuntimeError", "no convergence", l)
    ELSE IF BSInvalid(ContractAt(t, l.p0))
    THEN NewtonFails("ValueError", "validation", [l EXCEPT !.evals = l.evals + 1])
    ELSE NewtonBody(l, Objective(t, l.kind, l.market_price, l.p0),
                    vega(ContractAt(t, l.p0)))

\* A step of a solve takes effect: a returned value is what the caller
\* receives.
Step(o) ==
    /\ ret' = o.ret
    /\ loc' = o.loc
    /\ pc' = o.pc
    /\ res' = IF o.ret.kind = "value" THEN (o.loc.op :> o.ret.v) @@ res ELSE res
    /\ UNCHANGED <<np_random, obj, call>>

BrentBracket == pc = "brent" /\ Step(BrentEnter(obj, loc))

BrentStep == pc = "brent_loop" /\ Step(BrentPass(obj, loc))

NewtonStep == pc = "newton" /\ Step(NewtonPass(obj, loc))

\* The searches run to their end from the locals l, as the outcome that
\* reaches the caller.
RunFrom(t, o) == IF o.pc = "idle" THEN o ELSE Run(t, o.pc, o.loc)

Run(t, at, l) ==
    IF at = "brent" THEN RunFrom(t, BrentEnter(t, l))
    ELSE IF at = "brent_loop" THEN RunFrom(t, BrentPass(t, l))
    ELSE RunFrom(t, NewtonPass(t, l))

\* _solve_brent_call / _solve_brent_put of market_price as a whole.
solve_brent(t, kind, market_price) ==
    Run(t, "brent", SolveLocals("_solve_brent", kind, market_price, "brent"))

NextIV ==
    \/ \E t \in SolverContracts : ImpliedVolatilitySolver_init(t)
    \/ solve_iv_call
    \/ solve_iv_put
    \/ BrentBracket
    \/ BrentStep
    \/ NewtonStep

SpecIV == Init /\ [][NextIV]_vars

(***************************************************************************)
(* MonteCarlo (monte_carlo.py)                                             *)
(*                                                                         *)
(* Every pricing method draws from np.random.standard_normal, numpy's      *)
(* process-global generator.  The generator is modelled as a linear        *)
(* congruential generator of period 8 whose states map to the octile       *)
(* midpoints of the standard normal distribution; np.random.seed puts it   *)
(* in the state its seed determines.  Contracts with S < 0 or T < 0, on    *)
(* which numpy computes NaN prices, are left out.                          *)
(***************************************************************************)

\* The standard normal variate the generator hands out in each state.
NormalTable ==
    << -(1534 * LIMB + 121), 488 * LIMB + 776, -(157 * LIMB + 311), 887 * LIMB + 147,
       1534 * LIMB + 121, -(488 * LIMB + 776), 157 * LIMB + 311, -(887 * LIMB + 147) >>

\* The generator's state after one draw.
Advance(x) == (5 * x + 3) % Len(NormalTable)

RECURSIVE AdvanceBy(_, _)
\* The generator's state after m draws.
AdvanceBy(x, m) == IF m = 0 THEN x ELSE AdvanceBy(Advance(x), m - 1)

\* Z = np.random.standard_normal((n_simulations, n_steps)) drawn from the
\* generator in state x, row by row.
standard_normal(x, n_simulations, n_steps) ==
    [i \in 1..n_simulations |->
        [t \in 1..n_steps |-> NormalTable[AdvanceBy(x, (i - 1) * n_steps + t) + 1]]]

\* np.random.seed(s), called by the user of the library.
np_random_seed(s) ==
    /\ pc = "idle"
    /\ obj.cls = "MonteCarlo"
    /\ np_random' = [seed |-> s, state |-> s % Len(NormalTable)]
    /\ UNCHANGED <<obj, pc, call, loc, ret, res>>

\* The seeds the user may give.
Seeds == {1, 2}

\* The largest n_simulations and n_steps of a pricing call.
MaxSims == 3
MaxSteps == 2

MCContracts ==
    [S : {10 * SCALE, 12 * SCALE}, K : {10 * SCALE}, T : {SCALE},
     r : {50 * LIMB}, sigma : {200 * LIMB}]
    \cup
    { [S |-> 0, K |-> 10 * SCALE, T |-> SCALE, r |-> 50 * LIMB, sigma |-> 200 * LIMB],
      [S |-> 10 * SCALE, K |-> 0, T |-> SCALE, r |-> 50 * LIMB, sigma |-> 200 * LIMB],
      [S |-> 10 * SCALE, K |-> 10 * SCALE, T |-> 0, r |-> 50 * LIMB, sigma |-> 200 * LIMB],
      [S |-> 10 * SCALE, K |-> 10 * SCALE, T |-> SCALE, r |-> 50 * LIMB, sigma |-> 0],
      [S |-> 10 * SCALE, K |-> 10 * SCALE, T |-> SCALE, r |-> 0, sigma |-> -(200 * LIMB)] }

\* __init__ stores its arguments and checks none of them.
MonteCarlo_init(c) ==
    /\ pc = "idle"
    /\ obj = NoObject
    /\ ret = NoReturn
    /\ call' = [op |-> "MonteCarlo.__init__", c |-> c]
    /\ obj' = [cls |-> "MonteCarlo", S |-> c.S, K |-> c.K, T |-> c.T, r |-> c.r,
               sigma |-> c.sigma]
    /\ ret' = Value(0)
    /\ UNCHANGED <<pc, loc, res, np_random>>

RECURSIVE Sum(_)
Sum(xs) == IF xs = << >> THEN 0 ELSE Head(xs) + Sum(Tail(xs))

\* np.mean
Mean(xs) == RDiv(Sum(xs), Len(xs))

SquaredDeviations(xs, m) == [k \in DOMAIN xs |-> Mul(xs[k] - m, xs[k] - m)]

\* np.std
Std(xs) == Sqrt(Mean(SquaredDeviations(xs, Mean(xs))))

\* drift = (r - 0.5 sigma^2) dt
Drift(c, n_steps) ==
    Mul(c.r - RDiv(Mul(c.sigma, c.sigma), 2), RDiv(c.T, n_steps))

\* vol = sigma sqrt(dt)
Vol(c, n_steps) == Mul(c.sigma, Sqrt(RDiv(c.T, n_steps)))

\* log_returns = drift + vol * Z
LogReturns(Z, drift, vol) ==
    [i \in DOMAIN Z |-> [t \in DOMAIN Z[i] |-> drift + Mul(vol, Z[i][t])]]

\* terminal_prices = S * exp(cumulative_log_returns[:, -1])
TerminalPrices(c, log_returns) ==
    [i \in DOMAIN log_returns |-> Mul(c.S, Exp(Sum(log_returns[i])))]

RECURSIVE PathFrom(_, _)
\* paths[:, t] = paths[:, t-1] * exp(log_returns[:, t-1]), for one path.
PathFrom(price, lr) ==
    IF lr = << >> THEN <<price>>
    ELSE <<price>> \o PathFrom(Mul(price, Exp(Head(lr))), Tail(lr))

Paths(c, log_returns) == [i \in DOMAIN log_returns |-> PathFrom(c.S, log_returns[i])]

\* exp(mean(log(path))); np.log of a price of 0 is -inf, whose exp is 0.
GeometricMean(path) ==
    IF \E k \in DOMAIN path : path[k] <= 0 THEN 0
    ELSE Exp(Mean([k \in DOMAIN path |-> Ln(path[k])]))

AveragePrice(averaging, path) ==
    IF averaging = "arithmetic" THEN Mean(path) ELSE GeometricMean(path)

\* A barrier that a path must pass, not only touch.
BarrierHit_Strict(barrier_type, barrier_level, path) ==
    IF barrier_type \in {"up-and-out", "up-and-in"}
    THEN \E k \in DOMAIN path : path[k] > barrier_level
    ELSE \E k \in DOMAIN path : path[k] < barrier_level

\* Every barrier watched from below, as an up barrier is.
BarrierHit_AlwaysUp(barrier_type, barrier_level, path) ==
    \E k \in DOMAIN path : path[k] >= barrier_level

\* The barrier of a barrier option and the paths on which it pays.
BarrierHit(barrier_type, barrier_level, path) ==
    IF barrier_type \in {"up-and-out", "up-and-in"}
    THEN \E k \in DOMAIN path : path[k] >= barrier_level
    ELSE \E k \in DOMAIN path : path[k] <= barrier_level

\* A knock-in that looks at the terminal price only.
Active_TerminalKnockIn(barrier_type, barrier_level, path) ==
    IF barrier_type \in {"up-and-out", "down-and-out"}
    THEN ~BarrierHit(barrier_type, barrier_level, path)
    ELSE BarrierHit(barrier_type, barrier_level, <<path[Len(path)]>>)

Active(barrier_type, barrier_level, path) ==
    IF barrier_type \in {"up-and-out", "down-and-out"}
    THEN ~BarrierHit(barrier_type, barrier_level, path)
    ELSE BarrierHit(barrier_type, barrier_level, path)

\* The payoffs of the simulated paths, by pricing method.
EuropeanPayoffs(c, kind, terminal_prices) ==
    [i \in DOMAIN terminal_prices |-> Payoff(kind, c.K, terminal_prices[i])]

AsianPayoffs(c, args, paths) ==
    [i \in DOMAIN paths |->
        Payoff(args.option_type, c.K, AveragePrice(args.averaging, paths[i]))]

BarrierPayoffs(c, args, paths) ==
    [i \in DOMAIN paths |->
        IF Active(args.barrier_type, args.barrier_level, paths[i])
        THEN Payoff(args.option_type, c.K, paths[i][Len(paths[i])])
        ELSE 0]

MCPayoffs(c, op, args, log_returns) ==
    IF op = "price_european_call"
    THEN EuropeanPayoffs(c, "call", TerminalPrices(c, log_returns))
    ELSE IF op = "price_european_put"
    THEN EuropeanPayoffs(c, "put", TerminalPrices(c, log_returns))
    ELSE IF op = "price_asian_option"
    THEN AsianPayoffs(c, args, Paths(c, log_returns))
    ELSE BarrierPayoffs(c, args, Paths(c, log_returns))

\* discounted_payoffs = discount_factor * payoffs
Discounted(discount_factor, payoffs) ==
    [i \in DOMAIN payoffs |-> Mul(discount_factor, payoffs[i])]

\* np.nan, a value apart from every price: np.mean and np.std of an empty
\* array.
nan == HUGE + 2

\* A standard error taken relative to the price: not a number when the
\* price is 0.
Estimate_RelativeError(discounted_payoffs) ==
    IF discounted_payoffs = << >> THEN [price |-> nan, standard_error |-> nan]
    ELSE [price |-> Mean(discounted_payoffs),
          standard_error |-> IF Mean(discounted_payoffs) = 0 THEN nan
                             ELSE Div(Std(discounted_payoffs), Mean(discounted_payoffs))]

\* (price, standard_error) = (mean, std / sqrt(n_simulations))
Estimate(discounted_payoffs) ==
    IF discounted_payoffs = << >> THEN [price |-> nan, standard_error |-> nan]
    ELSE [price |-> Mean(discounted_payoffs),
          standard_error |-> Div(Std(discounted_payoffs),
                                 Sqrt(Len(discounted_payoffs) * SCALE))]

\* A pricing method as a function of the contract, its arguments and the
\* state of the global generator.
MCResult(c, op, args, x) ==
    Estimate(Discounted(Exp(-Mul(c.r, c.T)),
                        MCPayoffs(c, op, args,
                                  LogReturns(standard_normal(x, args.n_simulations, args.n_steps),
                                             Drift(c, args.n_steps),
                                             Vol(c, args.n_steps)))))

\* The arguments of the pricing calls: MaxSims paths of MaxSteps steps, and
\* the two ends of the range, no path and no step.
SimulationArgs ==
    [n_simulations : {MaxSims}, n_steps : {MaxSteps}]
    \cup { [n_simulations |-> 0, n_steps |-> MaxSteps],
           [n_simulations |-> MaxSims, n_steps |-> 0] }

AsianArgs ==
    [option_type : {"call", "put"}, averaging : {"arithmetic", "geometric"},
     n_simulations : {MaxSims}, n_steps : {MaxSteps}]
    \cup { [option_type |-> "call", averaging |-> "geometric",
            n_simulations |-> 0, n_steps |-> MaxSteps],
           [option_type |-> "put", averaging |-> "arithmetic",
            n_simulations |-> MaxSims, n_steps |-> 0] }

BarrierTypes == {"up-and-out", "down-and-out", "up-and-in", "down-and-in"}

BarrierArgs ==
    [option_type : {"call", "put"}, barrier_type : BarrierTypes,
     barrier_level : {10 * SCALE, 11 * SCALE},
     n_simulations : {MaxSims}, n_steps : {MaxSteps}]
    \cup { [option_type |-> "call", barrier_type |-> "up-and-out",
            barrier_level |-> 11 * SCALE, n_simulations |-> MaxSims, n_steps |-> 0] }

\* A pricing call.  dt = self.T / n_steps comes first and raises
\* ZeroDivisionError for n_steps = 0; else the call draws n_simulations *
\* n_steps variates from the global generator and leaves the generator that
\* much further on.
MCPrice(op, args) ==
    /\ pc = "idle"
    /\ obj.cls = "MonteCarlo"
    /\ call' = [op |-> op, args |-> args]
    /\ IF args.n_steps = 0
       THEN /\ ret' = Raise("ZeroDivisionError", "dt")
            /\ np_random' = np_random
       ELSE /\ ret' = Value(MCResult(obj, op, args, np_random.state))
            /\ np_random' = [np_random EXCEPT
                                !.state = AdvanceBy(@, args.n_simulations * args.n_steps)]
    /\ loc' = [op |-> op, state |-> np_random.state]
    /\ UNCHANGED <<obj, pc, res>>

mc_price_european_call == \E args \in SimulationArgs : MCPrice("price_european_call", args)

mc_price_european_put == \E args \in SimulationArgs : MCPrice("price_european_put", args)

price_asian_option == \E args \in AsianArgs : MCPrice("price_asian_option", args)

price_barrier_option == \E args \in BarrierArgs : MCPrice("price_barrier_option", args)

NextMC ==
    \/ \E c \in MCContracts : MonteCarlo_init(c)
    \/ \E s \in Seeds : np_random_seed(s)
    \/ mc_price_european_call
    \/ mc_price_european_put
    \/ price_asian_option
    \/ price_barrier_option

SpecMC == Init /\ [][NextMC]_vars

\* The calls that run in several steps: the lattice pricing methods and the
\* implied-volatility solves.
NextCalls == NextLattice \/ NextIV

SpecCalls == Init /\ [][NextCalls]_vars

(***************************************************************************)
(* OptionStrategy (strategies.py)                                          *)
(*                                                                         *)
(* A strategy holds S, T, r, sigma and a list of legs; nothing is          *)
(* validated until a calculation builds a BlackScholes for a leg.          *)
(***************************************************************************)

\* The legs of a strategy are bounded by MaxLegs.
MaxLegs == 2

\* The number of samples of the grids of calculate_breakeven_points and
\* calculate_max_profit_loss.
GridSize == 1000

\* np.inf
inf == HUGE + 1

StrategySettings ==
    { [S |-> 100 * SCALE, T |-> SCALE, r |-> 50 * LIMB, sigma |-> 200 * LIMB],
      [S |-> 100 * SCALE, T |-> 250 * LIMB, r |-> 50 * LIMB, sigma |-> 300 * LIMB],
      [S |-> 100 * SCALE, T |-> SCALE, r |-> 50 * LIMB, sigma |-> 0] }

Strikes == {100 * SCALE, 110 * SCALE}

\* OptionLeg(option_type, strike, position, quantity)
OptionLeg(option_type, strike, position, quantity) ==
    [option_type |-> option_type, strike |-> strike,
     position |-> position, quantity |-> quantity]

Legs ==
    { OptionLeg("call", 100 * SCALE, "long", 1),
      OptionLeg("call", 100 * SCALE, "short", 1),
      OptionLeg("call", 110 * SCALE, "short", 1),
      OptionLeg("put", 100 * SCALE, "long", 1),
      OptionLeg("put", 110 * SCALE, "short", 1),
      OptionLeg("call", 250 * SCALE, "long", 2),
      OptionLeg("Call", 100 * SCALE, "Long", 1) }

OptionStrategy_init(c) ==
    /\ pc = "idle"
    /\ obj = NoObject
    /\ ret = NoReturn
    /\ call' = [op |-> "OptionStrategy.__init__", c |-> c]
    /\ obj' = [cls |-> "OptionStrategy", S |-> c.S, T |-> c.T, r |-> c.r,
               sigma |-> c.sigma, legs |-> << >>]
    /\ ret' = Value(0)
    /\ UNCHANGED <<np_random, pc, loc, res>>

add_leg(leg) ==
    /\ pc = "idle"
    /\ obj.cls = "OptionStrategy"
    /\ Len(obj.legs) < MaxLegs
    /\ call' = [op |-> "add_leg", leg |-> leg]
    /\ obj' = [obj EXCEPT !.legs = Append(@, leg)]
    /\ ret' = Value(0)
    /\ UNCHANGED <<np_random, pc, loc, res>>

\* bull_call_spread: a long call at lower_strike, a short call at upper_strike.
bull_call_spread(c, lower_strike, upper_strike) ==
    /\ pc = "idle"
    /\ obj = NoObject
    /\ ret = NoReturn
    /\ call' = [op |-> "bull_call_spread", c |-> c,
                lower_strike |-> lower_strike, upper_strike |-> upper_strike]
    /\ obj' = [cls |-> "OptionStrategy", S |-> c.S, T |-> c.T, r |-> c.r,
               sigma |-> c.sigma,
               legs |-> <<OptionLeg("call", lower_strike, "long", 1),
                          OptionLeg("call", upper_strike, "short", 1)>>]
    /\ ret' = Value(0)
    /\ UNCHANGED <<np_random, pc, loc, res>>

\* BlackScholes(self.S, leg.strike, self.T, self.r, self.sigma)
LegContract(s, leg) ==
    [S |-> s.S, K |-> leg.strike, T |-> s.T, r |-> s.r, sigma |-> s.sigma]

\* A calculation that prices a leg raises what BlackScholes raises.
StrategyInvalid(s) == \E k \in DOMAIN s.legs : BSInvalid(LegContract(s, s.legs[k]))

\* Every leg added, whatever its position.
Signed_AlwaysAdded(leg, v) == v * leg.quantity

\* A reading that takes the capitalised spelling for a long leg too.
Signed_OtherSpellings(leg, v) ==
    IF leg.position \in {"long", "Long"} THEN v * leg.quantity ELSE -(v * leg.quantity)

\* += v * quantity for a long leg, -= v * quantity for any other.
Signed(leg, v) == IF leg.position = "long" THEN v * leg.quantity ELSE -(v * leg.quantity)

LegPrice(s, leg) ==
    IF leg.option_type = "call" THEN call_price(LegContract(s, leg))
    ELSE put_price(LegContract(s, leg))

calculate_total_premium(s) ==
    Sum([k \in DOMAIN s.legs |-> Signed(s.legs[k], LegPrice(s, s.legs[k]))])

RECURSIVE IntrinsicTotal(_, _, _)
\* The signed intrinsic payoffs at one price of the first n legs.
IntrinsicTotal(legs, price, n) ==
    IF n = 0 THEN 0
    ELSE IntrinsicTotal(legs, price, n - 1)
         + Signed(legs[n], Payoff(IF legs[n].option_type = "call" THEN "call" ELSE "put",
                                  legs[n].strike, price))

\* The initial cost taken off once for every leg.
PayoffAt_CostPerLeg(legs, initial_cost, price) ==
    IntrinsicTotal(legs, price, Len(legs)) - Len(legs) * initial_cost

\* The payoff of the legs at one price, less the initial cost.
PayoffAt(legs, initial_cost, price) ==
    IntrinsicTotal(legs, price, Len(legs)) - initial_cost

Payoffs(legs, initial_cost, stock_prices) ==
    [k \in DOMAIN stock_prices |-> PayoffAt(legs, initial_cost, stock_prices[k])]

calculate_payoff(s, stock_prices) ==
    Payoffs(s.legs, calculate_total_premium(s), stock_prices)

\* np.linspace(start, stop, num), for start <= stop.
linspace(start, stop, num) ==
    [k \in 1..num |->
        start + ((stop - start) \div (num - 1)) * (k - 1)
              + RDiv(((stop - start) % (num - 1)) * (k - 1), num - 1)]

\* payoffs[i] * payoffs[i + 1] < 0
OppositeSigns(a, b) == (a < 0 /\ b > 0) \/ (a > 0 /\ b < 0)

\* The midpoint of the two samples.
Interpolated_Midpoint(x, p, k) == (x[k] + x[k + 1]) \div 2

\* stock_range[i] + (0 - payoffs[i]) * (stock_range[i+1] - stock_range[i])
\*                  / (payoffs[i+1] - payoffs[i])
Interpolated(x, p, k) ==
    x[k] + Div(Mul(0 - p[k], x[k + 1] - x[k]), p[k + 1] - p[k])

RECURSIVE InOrder(_, _, _)
\* The breakevens of the sign changes at the indices I, in grid order.
InOrder(x, p, I) ==
    IF I = {} THEN << >>
    ELSE LET k == CHOOSE i \in I : \A j \in I : i <= j
         IN <<Interpolated(x, p, k)>> \o InOrder(x, p, I \ {k})

Breakevens(x, p) ==
    InOrder(x, p, {k \in 1..(Len(p) - 1) : OppositeSigns(p[k], p[k + 1])})

BreakevensOn(s, stock_range) == Breakevens(stock_range, calculate_payoff(s, stock_range))

\* The search for crossings run over the grid of calculate_max_profit_loss.
calculate_breakeven_points_WideGrid(s) ==
    BreakevensOn(s, linspace(Mul(s.S, 100 * LIMB), s.S * 3, GridSize))

calculate_breakeven_points(s) ==
    BreakevensOn(s, linspace(Mul(s.S, 500 * LIMB), Mul(s.S, 1500 * LIMB), GridSize))

RECURSIVE np_max(_, _, _)
\* np.max of values[lo..hi]
np_max(values, lo, hi) ==
    IF lo = hi THEN values[lo]
    ELSE Max(np_max(values, lo, (lo + hi) \div 2),
             np_max(values, (lo + hi) \div 2 + 1, hi))

RECURSIVE np_min(_, _, _)
\* np.min of values[lo..hi]
np_min(values, lo, hi) ==
    IF lo = hi THEN values[lo]
    ELSE Min(np_min(values, lo, (lo + hi) \div 2),
             np_min(values, (lo + hi) \div 2 + 1, hi))

\* A payoff that is flat at a boundary taken for one that keeps growing.
ProfitLoss_FlatUnbounded(p) ==
    <<IF p[Len(p)] >= p[Len(p) - 1] THEN inf ELSE np_max(p, 1, Len(p)),
      IF p[1] <= p[2] THEN -inf ELSE np_min(p, 1, Len(p))>>

\* (max_profit, max_loss) of the sampled payoffs.
ProfitLoss(p) ==
    <<IF p[Len(p)] > p[Len(p) - 1] THEN inf ELSE np_max(p, 1, Len(p)),
      IF p[1] < p[2] THEN -inf ELSE np_min(p, 1, Len(p))>>

calculate_max_profit_loss(s) ==
    ProfitLoss(calculate_payoff(s, linspace(Mul(s.S, 100 * LIMB), s.S * 3, GridSize)))

\* The Greeks of a call for every leg.
LegGreeks_AlwaysCall(s, leg) == greeks_call(LegContract(s, leg))

\* The Greeks of one leg: greeks_call of a call, greeks_put of any other.
LegGreeks(s, leg) ==
    IF leg.option_type = "call" THEN greeks_call(LegContract(s, leg))
    ELSE greeks_put(LegContract(s, leg))

GreekNames == {"delta", "gamma", "theta", "vega", "rho"}

TotalGreeks(legs, greeks) ==
    [g \in GreekNames |-> Sum([k \in DOMAIN legs |-> Signed(legs[k], greeks[k][g])])]

calculate_total_greeks(s) ==
    TotalGreeks(s.legs, [k \in DOMAIN s.legs |-> LegGreeks(s, s.legs[k])])

\* The price grids handed to calculate_payoff.
Grids ==
    { <<90 * SCALE, 100 * SCALE, 105 * SCALE, 110 * SCALE, 130 * SCALE>>,
      <<0, 110 * SCALE + 1>> }

StrategyOps ==
    {"calculate_total_premium", "calculate_breakeven_points",
     "calculate_max_profit_loss", "calculate_total_greeks"}

StrategyResult(s, op, args) ==
    CASE op = "calculate_total_premium" -> calculate_total_premium(s)
      [] op = "calculate_payoff" -> calculate_payoff(s, args.stock_prices)
      [] op = "calculate_breakeven_points" -> calculate_breakeven_points(s)
      [] op = "calculate_max_profit_loss" -> calculate_max_profit_loss(s)
      [] op = "calculate_total_greeks" -> calculate_total_greeks(s)

\* A calculation: it returns its result, or raises the ValueError of the
\* first leg whose BlackScholes rejects the strategy's S, T or sigma.  The
\* price grid of calculate_payoff is the caller's array; the call leaves it
\* in loc as it is when the call returns.
StrategyCall(op, args) ==
    /\ pc = "idle"
    /\ obj.cls = "OptionStrategy"
    /\ call' = [op |-> op, args |-> args]
    /\ ret' = IF StrategyInvalid(obj) THEN Raise("ValueError", "validation")
              ELSE Value(StrategyResult(obj, op, args))
    /\ loc' = [op |-> op, args |-> args]
    /\ UNCHANGED <<np_random, obj, pc, res>>

NextStrategy ==
    \/ \E c \in StrategySettings : OptionStrategy_init(c)
    \/ \E c \in StrategySettings : \E lower_strike, upper_strike \in Strikes :
          bull_call_spread(c, lower_strike, upper_strike)
    \/ \E leg \in Legs : add_leg(leg)
    \/ \E op \in StrategyOps : StrategyCall(op, << >>)
    \/ \E grid \in Grids : StrategyCall("calculate_payoff", [stock_prices |-> grid])

SpecStrategy == Init /\ [][NextStrategy]_vars

\* The pricers and the strategies without the simulations.
NextAnalytic == NextLattice \/ NextBS \/ NextIV \/ NextStrategy

SpecAnalytic == Init /\ [][NextAnalytic]_vars

\* The whole engine: a session constructs one object and calls its methods.
Next == NextLattice \/ NextBS \/ NextIV \/ NextMC \/ NextStrategy

Spec == Init /\ [][Next]_vars

(***************************************************************************)
(* Properties of the lattice                                               *)
(***************************************************************************)

\* The caller holds a tree built from a contract with S, K, T, sigma > 0.
ValidTree == obj.cls = "BinomialTree" /\ PositiveContract(obj)

Received(op) == op \in DOMAIN res

\* The numerical tolerance of a price comparison: a thousandth.
Tolerance == SCALE \div 1000

PutOrdering ==
    (Received("price_american_put") /\ Received("price_european_put"))
        => res["price_american_put"] >= res["price_european_put"]

AmericanPutAboveIntrinsic ==
    Received("price_american_put")
        => res["price_american_put"] >= Max(obj.K - obj.S, 0)

EuropeanPutAboveIntrinsic ==
    Received("price_european_put")
        => res["price_european_put"] >= Max(obj.K - obj.S, 0)

CallsEqual ==
    (Received("price_american_call") /\ Received("price_european_call"))
        => Abs(res["price_american_call"] - res["price_european_call"]) <= Tolerance

NodeDone(i, j) ==
    /\ i < obj.N
    /\ j <= i
    /\ (i > loc.i \/ (i = loc.i /\ j < loc.j))

\* C2: during and after a lattice pricing call, row N of the option tree
\* holds the payoff at the terminal stock prices; every node the backward
\* loop has written holds e^{-r dt} (p V[i+1][j+1] + q V[i+1][j]) for a
\* European method and the larger of that and the intrinsic payoff at
\* stock[i][j] for an American one; the loop runs from row N-1 down to row 0;
\* and the value returned is the one at node (0, 0).
C2_BackwardInduction ==
    (obj.cls = "BinomialTree" /\ loc.op \in LatticeOps) =>
        LET N == obj.N
            V == loc.option_tree
            St == loc.stock_tree
            call_kind == loc.op \in {"price_european_call", "price_american_call"}
            american == loc.op \in {"price_american_call", "price_american_put"}
            intrinsic(x) == IF call_kind THEN Max(x - obj.K, 0) ELSE Max(obj.K - x, 0)
            disc == Exp(-Mul(obj.r, obj.dt))
            cont(i, j) == Mul(disc, Mul(obj.p, V[i + 1][j + 1]) + Mul(obj.q, V[i + 1][j]))
        IN  /\ loc.i \in -1..(N - 1)
            /\ \A j \in 0..N : V[N][j] = intrinsic(St[N][j])
            /\ \A i \in 0..(N - 1) : \A j \in 0..i :
                  NodeDone(i, j) =>
                      V[i][j] = IF american THEN Max(cont(i, j), intrinsic(St[i][j]))
                                ELSE cont(i, j)
            /\ (pc = "idle" /\ ret.kind = "value") =>
                  /\ loc.i = -1
                  /\ ret.v = V[0][0]
                  /\ res[loc.op] = V[0][0]

\* An American put has returned a price that its early-exercise comparison
\* raised above the continuation value at the root, on a tree of several
\* steps.
C2_Witness ==
    /\ ValidTree
    /\ obj.N >= 2
    /\ pc = "idle"
    /\ loc.op = "price_american_put"
    /\ ret.kind = "value"
    /\ ret.v = Max(obj.K - obj.S, 0)
    /\ ret.v > Mul(loc.discount_factor,
                   Mul(obj.p, loc.option_tree[1][1]) + Mul(obj.q, loc.option_tree[1][0]))

\* C3: a construction whose up-probability p = (e^{r dt} - d) / (u - d) is
\* outside [0, 1] (or not a number) raises and hands no tree to the caller;
\* every tree the caller holds, and so every tree a pricing call runs on,
\* has 0 <= p <= 1 and q = 1 - p in [0, 1].
C3_ProbabilityChecked ==
    /\ (call.op = "BinomialTree.__init__" /\ pc = "idle" /\ res = << >> /\ loc.op = "none") =>
          LET bp == BinomialParams(call.c, call.N)
          IN  IF bp.nan \/ bp.p < 0 \/ bp.p > SCALE
              THEN ret = Raise("ValueError", "model") /\ obj = NoObject
              ELSE ret.kind = "value" /\ obj.cls = "BinomialTree" /\ obj.p = bp.p
    /\ obj.cls = "BinomialTree" =>
          /\ 0 <= obj.p /\ obj.p <= SCALE
          /\ obj.q = SCALE - obj.p
          /\ 0 <= obj.q /\ obj.q <= SCALE

\* A construction from a valid contract was refused because p > 1.
C3_Witness ==
    /\ call.op = "BinomialTree.__init__"
    /\ PositiveContract(call.c)
    /\ BinomialParams(call.c, call.N).p > SCALE
    /\ ret = Raise("ValueError", "model")
    /\ obj = NoObject

\* A construction from a valid contract was refused because p < 0.
C3_WitnessNegative ==
    /\ call.op = "BinomialTree.__init__"
    /\ PositiveContract(call.c)
    /\ BinomialParams(call.c, call.N).p < 0
    /\ ret = Raise("ValueError", "model")

(***************************************************************************)
(* Implied-volatility solver                                               *)
(***************************************************************************)

\* A solve_iv_call or solve_iv_put is under way or was the last call.
Solving == loc.op \in {"solve_iv_call", "solve_iv_put"}

\* The last call was a solve and the caller has its outcome.
Solved == Solving /\ pc = "idle"

\* The market price of the solve is outside the no-arbitrage bounds of the
\* solver's contract, written out from the intrinsic value and the theoretical maximum.
OutsideBounds ==
    IF loc.kind = "call"
    THEN \/ loc.market_price < Max(obj.S - obj.K, 0)
         \/ loc.market_price > obj.S
    ELSE \/ loc.market_price < Max(obj.K - obj.S, 0)
         \/ loc.market_price > Mul(obj.K, Exp(Mul(-obj.r, obj.T)))

\* C5: a solve whose market price is below the intrinsic value or above
\* the theoretical maximum ends at once with the ValueError of the
\* arbitrage check, whatever the method: neither search is started and the
\* model price is never evaluated.
C5_ArbitrageRejected ==
    (Solving /\ OutsideBounds) =>
        /\ pc = "idle"
        /\ ret = Raise("ValueError", "arbitrage")
        /\ loc.started = {}
        /\ loc.evals = 0
        /\ res = << >>

\* A call solve with method 'newton' was refused for a price above the
\* stock price.
C5_Witness ==
    /\ Solved
    /\ loc.kind = "call"
    /\ loc.method = "newton"
    /\ loc.market_price > obj.S
    /\ ret = Raise("ValueError", "arbitrage")

\* A put solve was refused for a price below the intrinsic value.
C5_WitnessBelow ==
    /\ Solved
    /\ loc.kind = "put"
    /\ loc.market_price < obj.K - obj.S
    /\ ret = Raise("ValueError", "arbitrage")

\* The Newton search of the solve failed and the solver fell back.
FellBack == loc.caught # "none"

\* C6: a solve with method 'newton' hands the caller either the plausible
\* value the Newton search converged to, or, after every failure of the
\* Newton search, exactly the outcome of the bracketing method for the same
\* market price; the only errors it raises after the arbitrage check are
\* those of the bracketing method.
C6_NewtonFallsBack ==
    (Solved /\ loc.method = "newton" /\ ~OutsideBounds) =>
        IF FellBack
        THEN /\ loc.started = {"newton", "brent"}
             /\ ret = solve_brent(obj, loc.kind, loc.market_price).ret
        ELSE /\ loc.started = {"newton"}
             /\ ret.kind = "value"
             /\ SigmaLow <= ret.v /\ ret.v <= SigmaHigh

\* The Newton search ran into a zero derivative, and the bracketing method
\* then found a volatility for the caller.
C6_Witness ==
    /\ Solved
    /\ loc.method = "newton"
    /\ loc.caught = "zero derivative"
    /\ ret.kind = "value"
    /\ ret = solve_brent(obj, loc.kind, loc.market_price).ret

\* The Newton search returned an implausible volatility, the bracketing
\* method failed as well, and the caller has its error.
C6_WitnessBothFail ==
    /\ Solved
    /\ loc.method = "newton"
    /\ loc.caught = "implausible"
    /\ ret = Raise("ValueError", "convergence")

\* The objective of the solve at volatility sigma, from the pricing
\* formulas.
ObjectiveAt(sigma) ==
    (IF loc.kind = "call" THEN call_price(ContractAt(obj, sigma))
     ELSE put_price(ContractAt(obj, sigma))) - loc.market_price

\* The objective changes sign, or is zero, between the volatilities lo and
\* hi.
Brackets(lo, hi) ==
    \/ (ObjectiveAt(lo) <= 0 /\ ObjectiveAt(hi) >= 0)
    \/ (ObjectiveAt(lo) >= 0 /\ ObjectiveAt(hi) <= 0)

\* The solver's contract is one BlackScholes accepts at a positive sigma.
SolverContractValid == obj.S > 0 /\ obj.K > 0 /\ obj.T > 0

\* C7: the bracketing search keeps its bracket inside [0.01, 5.0]; once it
\* has ended, it has returned a value exactly if the objective at 0.01 and
\* at 5.0 bracket zero, the value is an end of a bracket no wider than
\* xtol (or an exact zero of the objective), and in every other case the
\* caller has the ValueError of the convergence failure.
C7_Bracketing ==
    /\ (Solving /\ pc = "brent_loop") =>
          /\ SigmaLow <= loc.a /\ loc.a < loc.b /\ loc.b <= SigmaHigh
          /\ loc.bitr < BrentMaxIter
    /\ (Solved /\ "brent" \in loc.started) =>
          IF SolverContractValid /\ Brackets(SigmaLow, SigmaHigh)
          THEN /\ ret.kind = "value"
               /\ SigmaLow <= loc.a /\ loc.a <= loc.b /\ loc.b <= SigmaHigh
               /\ ret.v \in {loc.a, loc.b}
               /\ \/ ObjectiveAt(ret.v) = 0
                  \/ loc.b - loc.a <= IVTol /\ Brackets(loc.a, loc.b)
          ELSE ret = Raise("ValueError", "convergence")

\* The bracketing method, asked for directly, narrowed its bracket over
\* many passes and returned a volatility strictly inside (0.01, 5.0).
C7_Witness ==
    /\ Solved
    /\ loc.method = "brent"
    /\ loc.bitr >= 20
    /\ ret.kind = "value"
    /\ SigmaLow < ret.v /\ ret.v < SigmaHigh

\* The bracketing method refused bounds that do not bracket a root.
C7_WitnessNoBracket ==
    /\ Solved
    /\ loc.method = "brent"
    /\ SolverContractValid
    /\ ~Brackets(SigmaLow, SigmaHigh)
    /\ ret = Raise("ValueError", "convergence")

\* C8: a solve ends with a value or with an error, and every value it
\* returns, from the Newton search, from the bracketing method or from the
\* fallback, lies in [0.01, 5.0].
C8_ResultInRange ==
    Solved =>
        /\ ret.kind \in {"value", "raise"}
        /\ ret.kind = "value" =>
              /\ SigmaLow <= ret.v /\ ret.v <= SigmaHigh
              /\ res = (loc.op :> ret.v)
        /\ ret.kind = "raise" => res = << >>

\* The Newton search stopped at a volatility above 5.0, which the
\* plausibility check refused; the caller has no value.
C8_Witness ==
    /\ Solved
    /\ loc.method = "newton"
    /\ loc.caught = "implausible"
    /\ loc.p0 > SigmaHigh
    /\ ret.kind = "raise"

\* The Newton search returned a plausible volatility directly.
C8_WitnessDirect ==
    /\ Solved
    /\ loc.method = "newton"
    /\ ~FellBack
    /\ ret.kind = "value"

\* C9: whenever the construction of a BlackScholes inside a solve raised a
\* validation error, the caller of the solve has received an error: the
\* solver has not caught the validation error and returned a value instead.
C9_ValidationSurfaced ==
    (Solved /\ loc.caught = "validation") => ret.kind = "raise"

(***************************************************************************)
(* Construction and Monte Carlo pricing                                    *)
(***************************************************************************)

Constructors == {"BlackScholes.__init__", "BinomialTree.__init__", "MonteCarlo.__init__"}

\* The caller holds a pricer, and a pricing method of it has returned.
PricingRan ==
    /\ obj.cls \in {"BlackScholes", "BinomialTree", "MonteCarlo"}
    /\ call.op \notin Constructors
    /\ ret.kind = "value"

\* C4: a pricer built from a contract with a non-positive S, K, T or sigma
\* is never handed to the caller, so every pricing method that has
\* returned ran on a contract with S, K, T, sigma > 0.
C4_PricersValidated ==
    /\ obj.cls \in {"BlackScholes", "BinomialTree", "MonteCarlo"} => PositiveContract(obj)
    /\ PricingRan => PositiveContract(obj)

\* C10: a Monte Carlo pricing call that repeats the call before it, with
\* the same arguments on the same instance of a valid contract and under
\* the same seed given to np.random.seed, returns the same (price,
\* standard_error).
C10_Reproducible ==
    [][(/\ obj.cls = "MonteCarlo"
        /\ PositiveContract(obj)
        /\ np_random.seed \in Seeds
        /\ call.op \notin Constructors
        /\ call' = call
        /\ obj' = obj
        /\ np_random'.seed = np_random.seed)
       => ret' = ret]_vars

\* The paths a Monte Carlo call simulated, from the state of the generator
\* it drew from.
SimulatedPaths(c, args, x) ==
    Paths(c, LogReturns(standard_normal(x, args.n_simulations, args.n_steps),
                        Drift(c, args.n_steps), Vol(c, args.n_steps)))

\* The barrier type with the same direction and the other knock.
Counterpart(barrier_type) ==
    CASE barrier_type = "up-and-out" -> "up-and-in"
      [] barrier_type = "up-and-in" -> "up-and-out"
      [] barrier_type = "down-and-out" -> "down-and-in"
      [] barrier_type = "down-and-in" -> "down-and-out"

BarrierReturned ==
    /\ obj.cls = "MonteCarlo"
    /\ pc = "idle"
    /\ loc.op = "price_barrier_option"
    /\ ret.kind = "value"

\* The vanilla payoffs of the paths: the payoff at each terminal price.
VanillaPayoffs(c, args, paths) ==
    [i \in DOMAIN paths |-> Payoff(args.option_type, c.K, paths[i][Len(paths[i])])]

InOutParity(c, args, other, paths, x) ==
    /\ \A i \in DOMAIN paths :
          /\ Active(args.barrier_type, args.barrier_level, paths[i])
                # Active(other.barrier_type, other.barrier_level, paths[i])
          /\ BarrierPayoffs(c, args, paths)[i] + BarrierPayoffs(c, other, paths)[i]
                = VanillaPayoffs(c, args, paths)[i]
    /\ Abs(ret.v.price + MCResult(c, "price_barrier_option", other, x).price
            - Estimate(Discounted(Exp(-Mul(c.r, c.T)),
                                  VanillaPayoffs(c, args, paths))).price) <= 1

\* C12: on the path set a barrier pricing call simulated, a path is active
\* for the knock-in option exactly when it is inactive for the knock-out
\* option of the same option type, level and direction; on every path the
\* two payoffs add up to the vanilla payoff, and the two prices add up to
\* the vanilla price of the path set (to one unit of rounding of the means).
C12_InOutParity ==
    BarrierReturned =>
        InOutParity(obj, call.args,
                    [call.args EXCEPT !.barrier_type = Counterpart(@)],
                    SimulatedPaths(obj, call.args, loc.state), loc.state)

\* A barrier call returned on a path set with a path that hit the barrier
\* and paid, and a path that did not hit it and paid.
C12_Witness ==
    /\ BarrierReturned
    /\ \E i, k \in DOMAIN SimulatedPaths(obj, call.args, loc.state) :
          /\ BarrierHit(call.args.barrier_type, call.args.barrier_level,
                        SimulatedPaths(obj, call.args, loc.state)[i])
          /\ ~BarrierHit(call.args.barrier_type, call.args.barrier_level,
                         SimulatedPaths(obj, call.args, loc.state)[k])
          /\ VanillaPayoffs(obj, call.args, SimulatedPaths(obj, call.args, loc.state))[i] > 0
          /\ VanillaPayoffs(obj, call.args, SimulatedPaths(obj, call.args, loc.state))[k] > 0

(***************************************************************************)
(* Properties of the strategies                                            *)
(***************************************************************************)

\* A calculation of the strategy the caller holds has returned a value.
StrategyReturned(op) ==
    /\ obj.cls = "OptionStrategy"
    /\ pc = "idle"
    /\ call.op = op
    /\ ret.kind = "value"

RECURSIVE SumOver(_, _)
\* The sum of f over the indices I.
SumOver(f, I) ==
    IF I = {} THEN 0
    ELSE LET k == CHOOSE i \in I : TRUE IN f[k] + SumOver(f, I \ {k})

LongLegs(s) == {k \in DOMAIN s.legs : s.legs[k].position = "long"}

\* The legs that are subtracted: the short legs, and any leg whose position
\* is not 'long'.
ShortLegs(s) == {k \in DOMAIN s.legs : s.legs[k].position # "long"}

\* The Black-Scholes price of each leg at its strike and the strategy's S,
\* T, r, sigma, times the leg's quantity.
LegPremiums(s) ==
    [k \in DOMAIN s.legs |->
        s.legs[k].quantity *
            (IF s.legs[k].option_type = "call"
             THEN call_price([S |-> s.S, K |-> s.legs[k].strike, T |-> s.T,
                              r |-> s.r, sigma |-> s.sigma])
             ELSE put_price([S |-> s.S, K |-> s.legs[k].strike, T |-> s.T,
                             r |-> s.r, sigma |-> s.sigma]))]

NetPremium(s) ==
    SumOver(LegPremiums(s), LongLegs(s)) - SumOver(LegPremiums(s), ShortLegs(s))

\* C13: calculate_total_premium returns the sum over the legs of the
\* Black-Scholes price of the leg times its quantity, added for a long leg
\* and subtracted for a short leg.
C13_TotalPremium ==
    StrategyReturned("calculate_total_premium") => ret.v = NetPremium(obj)

\* A net debit: a long and a short leg, and a positive total.
C13_Witness ==
    /\ StrategyReturned("calculate_total_premium")
    /\ LongLegs(obj) # {}
    /\ ShortLegs(obj) # {}
    /\ ret.v > 0

\* A net credit: a long and a short leg, and a negative total.
C13_WitnessCredit ==
    /\ StrategyReturned("calculate_total_premium")
    /\ LongLegs(obj) # {}
    /\ ShortLegs(obj) # {}
    /\ ret.v < 0

\* quantity * max(x - strike, 0) for a call, quantity * max(strike - x, 0)
\* for a put, of each leg at the price x.
LegIntrinsics(s, x) ==
    [k \in DOMAIN s.legs |->
        s.legs[k].quantity *
            (IF s.legs[k].option_type = "call"
             THEN Max(x - s.legs[k].strike, 0)
             ELSE Max(s.legs[k].strike - x, 0))]

\* C14: calculate_payoff(grid) returns, for every grid point x, the sum
\* over the legs of the signed intrinsic payoff at x, less the net premium
\* taken off once; the grid is the caller's grid when the call returns.
C14_Payoff ==
    StrategyReturned("calculate_payoff") =>
        /\ DOMAIN ret.v = DOMAIN call.args.stock_prices
        /\ \A k \in DOMAIN ret.v :
              ret.v[k] = SumOver(LegIntrinsics(obj, call.args.stock_prices[k]), LongLegs(obj))
                         - SumOver(LegIntrinsics(obj, call.args.stock_prices[k]), ShortLegs(obj))
                         - NetPremium(obj)
        /\ loc.args.stock_prices = call.args.stock_prices

\* The payoff of two legs with a premium that is not zero, on a grid with
\* a point where a long leg pays and a point where a short leg pays.
C14_Witness ==
    /\ StrategyReturned("calculate_payoff")
    /\ Len(obj.legs) = 2
    /\ NetPremium(obj) # 0
    /\ \E k \in DOMAIN ret.v :
          SumOver(LegIntrinsics(obj, call.args.stock_prices[k]), LongLegs(obj)) > 0
    /\ \E k \in DOMAIN ret.v :
          SumOver(LegIntrinsics(obj, call.args.stock_prices[k]), ShortLegs(obj)) > 0

\* The grid of calculate_breakeven_points and the payoffs sampled on it.
BreakevenGrid(s) == linspace(s.S \div 2, s.S + s.S \div 2, GridSize)

PayoffOn(s, x) ==
    SumOver(LegIntrinsics(s, x), LongLegs(s)) - SumOver(LegIntrinsics(s, x), ShortLegs(s))
    - NetPremium(s)

\* The total quantity of the legs: the payoff changes by at most this much
\* per unit of price.
TotalQuantity(s) == SumOver([k \in DOMAIN s.legs |-> s.legs[k].quantity], DOMAIN s.legs)

\* A strike lies strictly between the two samples.
KinkBetween(s, lo, hi) == \E k \in DOMAIN s.legs : lo < s.legs[k].strike /\ s.legs[k].strike < hi

\* The value at b of the chord through the samples (x0, p0) and (x1, p1),
\* times x1 - x0.
ChordAt(x0, p0, x1, p1, b) == Mul(p0, x1 - x0) + Mul(b - x0, p1 - p0)

\* b is the linear interpolation between the adjacent samples k and k + 1
\* of the grid x, whose payoffs have opposite signs: the chord through the
\* two samples is 0 at b.  The payoff at b is 0 to the tolerance where the
\* payoff is linear between the two samples, and within the payoff's
\* greatest change over one grid step otherwise.
BreakevenOf(s, x, premium, b, k) ==
    /\ OppositeSigns(PayoffAt(s.legs, premium, x[k]), PayoffAt(s.legs, premium, x[k + 1]))
    /\ x[k] <= b /\ b <= x[k + 1]
    /\ Abs(ChordAt(x[k], PayoffAt(s.legs, premium, x[k]),
                   x[k + 1], PayoffAt(s.legs, premium, x[k + 1]), b))
         <= Mul(Tolerance, x[k + 1] - x[k])
    /\ Abs(PayoffAt(s.legs, premium, b)) <= Mul(TotalQuantity(s) * SCALE, x[k + 1] - x[k])
    /\ ~KinkBetween(s, x[k], x[k + 1]) => Abs(PayoffAt(s.legs, premium, b)) <= Tolerance

\* C15: every value b returned by calculate_breakeven_points is the linear
\* interpolation between two adjacent samples of the 1000-point grid over
\* [0.5 S, 1.5 S] whose payoffs have opposite signs, and calculate_payoff(b)
\* is 0 within the interpolation tolerance.
C15_Breakevens ==
    StrategyReturned("calculate_breakeven_points") =>
        \A n \in DOMAIN ret.v :
            \E k \in 1..(GridSize - 1) :
                BreakevenOf(obj, BreakevenGrid(obj), NetPremium(obj), ret.v[n], k)

\* Two breakevens were returned.
C15_Witness ==
    /\ StrategyReturned("calculate_breakeven_points")
    /\ Len(ret.v) = 2

\* The grid of calculate_max_profit_loss.
ProfitLossGrid(s) == linspace(s.S \div 10, 3 * s.S, GridSize)

\* m is the greatest (sense = 1) or the least (sense = -1) of the payoffs
\* sampled on the grid x.
SampledExtreme(s, x, premium, m, sense) ==
    /\ \E k \in DOMAIN x : PayoffAt(s.legs, premium, x[k]) = m
    /\ \A k \in DOMAIN x : sense * PayoffAt(s.legs, premium, x[k]) <= sense * m

\* The report of calculate_max_profit_loss against the payoffs at the two
\* ends of its grid: lo0, lo1 the first two samples, hi1, hi0 the last two.
UnboundedReported(s, x, premium, lo0, lo1, hi1, hi0) ==
    /\ hi0 > hi1 => ret.v[1] = inf
    /\ hi0 < hi1 => ret.v[2] = -inf
    /\ (hi0 = hi1 /\ lo0 = lo1) =>
          /\ SampledExtreme(s, x, premium, ret.v[1], 1)
          /\ SampledExtreme(s, x, premium, ret.v[2], -1)

EndsReported(s, x, premium) ==
    UnboundedReported(s, x, premium,
                      PayoffAt(s.legs, premium, x[1]), PayoffAt(s.legs, premium, x[2]),
                      PayoffAt(s.legs, premium, x[GridSize - 1]),
                      PayoffAt(s.legs, premium, x[GridSize]))

\* C16: calculate_max_profit_loss reports max profit as +inf for a payoff
\* still strictly increasing at the upper end of its grid over [0.1 S, 3 S],
\* max loss as -inf for a payoff still strictly decreasing at the upper end
\* of the grid, and the sampled extremes for a payoff flat at both ends.
C16_UnboundedReported ==
    StrategyReturned("calculate_max_profit_loss") =>
        EndsReported(obj, ProfitLossGrid(obj), NetPremium(obj))

\* The strategy bull_call_spread builds from S = 100, lower_strike = 100
\* and upper_strike = 110.
BullCallSpread(s) ==
    /\ s.cls = "OptionStrategy"
    /\ s.S = 100 * SCALE
    /\ s.legs = <<[option_type |-> "call", strike |-> 100 * SCALE,
                   position |-> "long", quantity |-> 1],
                  [option_type |-> "call", strike |-> 110 * SCALE,
                   position |-> "short", quantity |-> 1]>>

Calculated == pc = "idle" /\ call.op \in StrategyOps

C17_WitnessBreakeven ==
    /\ BullCallSpread(obj)
    /\ StrategyReturned("calculate_breakeven_points")
    /\ Len(ret.v) = 1
    /\ ret.v[1] > 100 * SCALE /\ ret.v[1] < 110 * SCALE

\* The Black-Scholes Greeks of each leg, times the leg's quantity.
LegGreekTimesQuantity(s, g) ==
    [k \in DOMAIN s.legs |->
        s.legs[k].quantity *
            (IF s.legs[k].option_type = "call"
             THEN greeks_call([S |-> s.S, K |-> s.legs[k].strike, T |-> s.T,
                               r |-> s.r, sigma |-> s.sigma])[g]
             ELSE greeks_put([S |-> s.S, K |-> s.legs[k].strike, T |-> s.T,
                              r |-> s.r, sigma |-> s.sigma])[g])]

\* The legs in the opposite order, and the legs without two of them.
Reversed(legs) == [k \in DOMAIN legs |-> legs[Len(legs) + 1 - k]]

Without(legs, i, j) == SelectSeq([k \in DOMAIN legs |-> IF k \in {i, j} THEN << >> ELSE <<legs[k]>>],
                                 LAMBDA e : e # << >>)

\* A long leg and a short leg that are otherwise the same.
Offsetting(a, b) ==
    /\ a.position = "long" /\ b.position = "short"
    /\ [a EXCEPT !.position = "short"] = b

Flatten(legs) == [k \in DOMAIN legs |-> legs[k][1]]

\* C18: calculate_total_greeks returns, for each of delta, gamma, theta,
\* vega and rho, the sum over the legs of the leg's Black-Scholes Greek
\* times its quantity, added for a long leg and subtracted for a short
\* leg; the totals are those of the legs added in the opposite order, and
\* a long leg and an identical short leg add nothing to them.
C18_TotalGreeks ==
    StrategyReturned("calculate_total_greeks") =>
        /\ DOMAIN ret.v = GreekNames
        /\ \A g \in GreekNames :
              ret.v[g] = SumOver(LegGreekTimesQuantity(obj, g), LongLegs(obj))
                         - SumOver(LegGreekTimesQuantity(obj, g), ShortLegs(obj))
        /\ ret.v = calculate_total_greeks([obj EXCEPT !.legs = Reversed(@)])
        /\ \A i, j \in DOMAIN obj.legs :
              Offsetting(obj.legs[i], obj.legs[j]) =>
                  ret.v = calculate_total_greeks(
                              [obj EXCEPT !.legs = Flatten(Without(@, i, j))])

\* The total Greeks of a call and a put, one long and one short.
C18_Witness ==
    /\ StrategyReturned("calculate_total_greeks")
    /\ \E i, j \in DOMAIN obj.legs :
          /\ obj.legs[i].option_type = "call" /\ obj.legs[j].option_type = "put"
          /\ obj.legs[i].position # obj.legs[j].position
    /\ \A g \in GreekNames : ret.v[g] # 0

\* The total Greeks of a long call and the identical short call: all zero.
C18_WitnessOffsetting ==
    /\ StrategyReturned("calculate_total_greeks")
    /\ Len(obj.legs) = 2
    /\ Offsetting(obj.legs[1], obj.legs[2])
    /\ \A g \in GreekNames : ret.v[g] = 0

(***************************************************************************)
(* Independence of the nodes of one backward-induction step                *)
(***************************************************************************)

\* The backward loop is at row loc.i, every row after it complete.
RowInProgress ==
    /\ obj.cls = "BinomialTree"
    /\ pc = "induct"
    /\ loc.i >= 0

\* The value the running method computes for node (loc.i, j) from the tree V.
RowValue(V, j) ==
    NodeValue(obj, loc.op, loc.discount_factor, loc.stock_tree, V, loc.i, j)

\* The option tree with row loc.i as another order of evaluation leaves it:
\* the nodes in D written, every other node of the row still 0.
RowWith(D) ==
    [loc.option_tree EXCEPT
        ![loc.i] = [j \in 0..obj.N |-> IF j \in D THEN RowValue(loc.option_tree, j) ELSE 0]]

\* C19: within step i of the backward induction the value of node (i, j)
\* is the same whichever nodes of step i have been written before it: it
\* depends on rows i + 1 of the option tree and on stock[i][j] only.  So
\* every order of evaluating the nodes of a step, after step i + 1 is
\* complete, writes the values the loop writes, and gives the same price.
C19_NodesIndependent ==
    RowInProgress =>
        \A D \in SUBSET (0..loc.i) : \A j \in 0..loc.i :
            RowValue(RowWith(D), j)
                = IF j < loc.j THEN loc.option_tree[loc.i][j]
                  ELSE RowValue(loc.option_tree, j)

\* A row of three nodes with its first node written and not zero, and a
\* later node whose value will not be zero.
C19_Witness ==
    /\ RowInProgress
    /\ loc.i = 2
    /\ loc.j = 1
    /\ loc.option_tree[2][0] # 0
    /\ RowValue(loc.option_tree, 1) # 0
    /\ RowValue(loc.option_tree, 1) # loc.option_tree[2][0]

(***************************************************************************)
(* Termination of the calls that run in several steps                      *)
(***************************************************************************)

\* The nodes (i, j), 0 <= j <= i < N, the backward loop has yet to write.
Remaining(l) == IF l.i < 0 THEN 0 ELSE (l.i * (l.i + 1)) \div 2 + (l.i + 1 - l.j)

\* A step of a lattice pricing call: the call starts with every node to
\* write; a pass writes node (loc.i, loc.j), which was still to write, and
\* no other; the call returns when no node is left.
LatticeProgress ==
    /\ (pc = "idle" /\ pc' = "induct") =>
          Remaining(loc') = (obj.N * (obj.N + 1)) \div 2
    /\ (pc = "induct" /\ loc.i >= 0) =>
          /\ pc' = "induct"
          /\ 0 <= loc.j /\ loc.j <= loc.i /\ loc.i < obj.N
          /\ Remaining(loc') = Remaining(loc) - 1
          /\ \A i \in 0..obj.N : \A j \in 0..obj.N :
                (i # loc.i \/ j # loc.j) =>
                    loc'.option_tree[i][j] = loc.option_tree[i][j]
    /\ (pc = "induct" /\ loc.i < 0) =>
          /\ pc' = "idle"
          /\ ret'.kind = "value"

\* A step of an implied-volatility solve: at most NewtonMaxIter counted
\* Newton passes; the bracketing search is entered at most once, from the
\* dispatch or from the Newton search, never left for the Newton search,
\* and makes at most BrentMaxIter counted passes; the solve ends with a
\* value or an error.
SolveProgress ==
    /\ (pc = "idle" /\ pc' # "idle" /\ Solving') =>
          loc'.itr = 0 /\ loc'.bitr = 0 /\ "brent" \notin loc'.started
    /\ pc = "newton" =>
          /\ pc' \in {"newton", "brent", "idle"}
          /\ loc.itr <= NewtonMaxIter
          /\ pc' = "newton" => (loc'.itr = loc.itr + 1 /\ loc'.itr <= NewtonMaxIter)
    /\ pc = "brent" =>
          /\ pc' \in {"brent_loop", "idle"}
          /\ "brent" \notin loc.started
          /\ "brent" \in loc'.started
          /\ loc'.bitr = 0
    /\ pc = "brent_loop" =>
          /\ pc' \in {"brent_loop", "idle"}
          /\ pc' = "brent_loop" => (loc'.bitr = loc.bitr + 1 /\ loc'.bitr <= BrentMaxIter)
    /\ (pc \in {"newton", "brent", "brent_loop"} /\ pc' = "idle") =>
          ret'.kind \in {"value", "raise"}

\* The steps a running call has left at most: a pass for each node to
\* write and the return, for a lattice pricing call; the Newton passes left,
\* the end of the Newton search, the entry of the bracketing search and its
\* passes, for a solve.
StepsLeft(at, l) ==
    CASE at = "idle" -> 0
      [] at = "induct" -> Remaining(l) + 1
      [] at = "brent_loop" -> (BrentMaxIter - l.bitr) + 1
      [] at = "brent" -> BrentMaxIter + 2
      [] at = "newton" -> (NewtonMaxIter - l.itr) + 1 + BrentMaxIter + 2

\* A running call is at a step of one of its loops, and each step leaves it
\* fewer steps to take.
CallProgress ==
    /\ pc \in {"idle", "induct", "newton", "brent", "brent_loop"}
    /\ pc # "idle" =>
          /\ StepsLeft(pc, loc) > 0
          /\ StepsLeft(pc', loc') >= 0
          /\ StepsLeft(pc', loc') < StepsLeft(pc, loc)

\* C20: a lattice pricing call writes each node (i, j), 0 <= j <= i < N,
\* exactly once and then returns; an implied-volatility solve ends, with a
\* value or an error, after at most 50 Newton passes followed by at most
\* one bracketing search of at most 100 passes; every step of a call
\* leaves it fewer steps to take, so the call ends within the number of
\* steps it starts with.
C20_Terminates == [][LatticeProgress /\ SolveProgress /\ CallProgress]_vars

\* A solve that fell back to the bracketing search after Newton passes has
\* ended.
C20_Witness ==
    /\ Solving
    /\ pc = "idle"
    /\ loc.started = {"newton", "brent"}
    /\ loc.itr > 0
    /\ loc.bitr > 1
    /\ ret.kind = "value"

\* A lattice pricing call over six nodes has returned.
C20_WitnessLattice ==
    /\ obj.cls = "BinomialTree"
    /\ obj.N = 3
    /\ pc = "idle"
    /\ loc.op \in LatticeOps
    /\ Remaining(loc) = 0
    /\ ret.kind = "value"

(***************************************************************************)
(* Pricing and analysis leave their object as it is                        *)
(***************************************************************************)

AnalyticClasses == {"BlackScholes", "BinomialTree", "ImpliedVolatilitySolver", "OptionStrategy"}

\* A step of a pricing or analysis call on the object the caller holds:
\* every step on it but add_leg.
AnalysisStep == obj.cls \in AnalyticClasses /\ call'.op # "add_leg"

\* The step changes no field of the object and no state outside it.
Frame == AnalysisStep => (obj' = obj /\ np_random' = np_random)

\* The step that ends a call made before returns what the call returned
\* before: a method of BlackScholes, a lattice pricing method, a solve.
Repeated ==
    /\ (obj.cls = "BlackScholes" /\ call'.op \in DOMAIN res) =>
          ret' = Value(res[call'.op])
    /\ (obj.cls = "BinomialTree" /\ pc = "induct" /\ pc' = "idle" /\ loc.op \in DOMAIN res) =>
          ret' = Value(res[loc.op])
    /\ (obj.cls = "ImpliedVolatilitySolver" /\ pc' = "idle" /\ res # << >>) =>
          ret' = Value(res[call'.op])

\* What a calculation of a strategy or get_early_exercise_boundary has
\* returned is what it returns from the object as the caller holds it,
\* whatever was called before.
ResultOfObject ==
    /\ (obj.cls = "OptionStrategy" /\ pc = "idle"
          /\ call.op \in StrategyOps \cup {"calculate_payoff"}) =>
          ret = IF StrategyInvalid(obj) THEN Raise("ValueError", "validation")
                ELSE Value(StrategyResult(obj, call.op, call.args))
    /\ (obj.cls = "BinomialTree" /\ pc = "idle"
          /\ call.op = "get_early_exercise_boundary") =>
          ret = Value(EarlyExerciseBoundary(
                          obj, call.option_type,
                          IF call.option_type = "call" THEN "call" ELSE "put",
                          IF call.option_type = "call" THEN "price_american_call"
                          ELSE "price_american_put",
                          build_stock_tree(obj)))

\* C11: no pricing or analysis call changes a field of its object (S, K,
\* T, r, sigma, N, u, d, p, q, the legs) or the state shared with a later
\* call, and a call repeated on the object after any such calls returns
\* what it returned before.
C11_Pure == []ResultOfObject /\ [][Frame /\ Repeated]_vars

\* A lattice pricing method called again after another one has computed
\* the price it returned the first time.
C11_Witness ==
    /\ obj.cls = "BinomialTree"
    /\ pc = "induct"
    /\ loc.i < 0
    /\ loc.op \in DOMAIN res
    /\ Cardinality(DOMAIN res) >= 2
    /\ res[loc.op] > 0
    /\ loc.option_tree[0][0] = res[loc.op]

\* A solve called again with the value it returned before.
C11_WitnessSolve ==
    /\ obj.cls = "ImpliedVolatilitySolver"
    /\ pc \in {"newton", "brent", "brent_loop"}
    /\ res # << >>

(***************************************************************************)
(* Round trip of the implied volatility                                    *)
(***************************************************************************)

\* The volatilities of the round trip: the quoted ones in [0.01, 3.0].
RoundTripSigmas == {sg \in QuotedSigmas : SigmaLow <= sg /\ sg <= 3 * SCALE}

\* 1e-4
RoundTripTol == SCALE \div (10 * LIMB)

\* A solve_iv_call with method 'brent' or 'newton' has ended on the solver
\* of a valid contract.
CallSolved ==
    /\ Solved
    /\ loc.kind = "call"
    /\ loc.method \in {"brent", "newton"}
    /\ SolverContractValid

\* The market price of the solve is BlackScholes(S, K, T, r, sg).call_price().
\* A price of no unit stands for every float64 below half a unit, which the
\* representation does not tell apart, and is not taken for a quote.
PricedAt(sg) ==
    /\ loc.market_price > 0
    /\ loc.market_price = call_price(ContractAt(obj, sg))

\* The solve returned a value within 1e-4 of sg.
Recovered(sg) == ret.kind = "value" /\ Abs(ret.v - sg) <= RoundTripTol

\* The call price tells sg from the volatilities 1e-4 away from it: it is
\* strictly higher at sg + 1e-4 and, above the lower bound 0.01 of the
\* search, strictly lower at sg - 1e-4.
PriceTellsApart(sg) ==
    /\ call_price(ContractAt(obj, sg)) < call_price(ContractAt(obj, sg + RoundTripTol))
    /\ \/ sg = SigmaLow
       \/ call_price(ContractAt(obj, sg - RoundTripTol)) < call_price(ContractAt(obj, sg))

C21_WitnessNewton ==
    /\ CallSolved
    /\ loc.method = "newton"
    /\ \E sg \in RoundTripSigmas \ {InitialGuess} :
          PricedAt(sg) /\ PriceTellsApart(sg) /\ Recovered(sg)

(***************************************************************************)
(* Put-call parity                                                         *)
(***************************************************************************)

\* The caller holds a BlackScholes (its contract passed the validation)
\* and has received both prices from it.
BothPrices ==
    /\ obj.cls = "BlackScholes"
    /\ Received("call_price")
    /\ Received("put_price")

\* S - K e^{-rT}
Forward(c) == c.S - Mul(c.K, Exp(Mul(-c.r, c.T)))

\* The bound on the parity error.  1e-9 is some tens of thousands of the
\* roundings of a float64 price; in this representation each of the four
\* products of the two formulas is rounded by at most half a unit, and
\* the bound taken here is these four roundings.
ParityTol == 4 \div 2

MCPriced ==
    /\ obj.cls = "MonteCarlo"
    /\ PositiveContract(obj)
    /\ pc = "idle"
    /\ call.op \in {"price_european_call", "price_european_put",
                    "price_asian_option", "price_barrier_option"}

\* The call handed the caller a (price, standard_error) pair.
PairReturned ==
    /\ ret.kind = "value"
    /\ DOMAIN ret.v = {"price", "standard_error"}

\* Both entries of the pair are numbers, and neither is negative.
PairOfNumbers ==
    /\ 0 <= ret.v.price /\ ret.v.price < HUGE
    /\ 0 <= ret.v.standard_error /\ ret.v.standard_error < HUGE

\* No path of the barrier call is active.
EveryPathInactive ==
    /\ call.op = "price_barrier_option"
    /\ \A i \in DOMAIN SimulatedPaths(obj, call.args, loc.state) :
          ~Active(call.args.barrier_type, call.args.barrier_level,
                  SimulatedPaths(obj, call.args, loc.state)[i])

C23_WitnessSpread ==
    /\ MCPriced
    /\ PairReturned
    /\ ret.v.price > 0 /\ ret.v.price < HUGE
    /\ ret.v.standard_error > 0 /\ ret.v.standard_error < HUGE

(***************************************************************************)
(* The early-exercise boundary                                             *)
(***************************************************************************)

\* get_early_exercise_boundary has returned on a tree of a valid contract.
BoundaryReturned ==
    /\ ValidTree
    /\ pc = "idle"
    /\ call.op = "get_early_exercise_boundary"
    /\ ret.kind = "value"

\* The option kind the call priced: a call for 'call', else a put.
BoundaryKind == IF call.option_type = "call" THEN "call" ELSE "put"

\* The exercise value at node (i, j) of the tree t.
ExerciseValue(t, kind, i, j) == Payoff(kind, t.K, build_stock_tree(t)[i][j])

RECURSIVE AmericanValue(_, _, _, _)
RECURSIVE HoldValue(_, _, _, _)

\* The value of the American option at node (i, j), node by node: the
\* payoff at expiry, before it the larger of holding and exercising.
AmericanValue(t, kind, i, j) ==
    IF i = t.N THEN ExerciseValue(t, kind, i, j)
    ELSE Max(HoldValue(t, kind, i, j), ExerciseValue(t, kind, i, j))

\* The continuation value at node (i, j): the discounted expectation of the
\* American values of its two successors.
HoldValue(t, kind, i, j) ==
    Mul(Exp(Mul(-t.r, t.dt)),
        Mul(t.p, AmericanValue(t, kind, i + 1, j + 1))
          + Mul(t.q, AmericanValue(t, kind, i + 1, j)))

\* The stock prices of the nodes of step i at which exercising is worth
\* strictly more than holding.
ExercisedAt(t, kind, i) ==
    { build_stock_tree(t)[i][j] : j \in
        { j \in 0..i : ExerciseValue(t, kind, i, j) > HoldValue(t, kind, i, j) } }

\* C24: the boundary returned has one entry for each step 0..N-1; the entry
\* of a step with no node at which the exercise value is strictly greater
\* than the continuation value is None, and any other entry is a price of
\* such a node of the step, the lowest of them for a call and the highest
\* for a put.
C24_Boundary ==
    BoundaryReturned =>
        /\ DOMAIN ret.v = 0..(obj.N - 1)
        /\ \A i \in 0..(obj.N - 1) :
              IF ExercisedAt(obj, BoundaryKind, i) = {}
              THEN ret.v[i] = << >>
              ELSE /\ Len(ret.v[i]) = 1
                   /\ ret.v[i][1] \in ExercisedAt(obj, BoundaryKind, i)
                   /\ \A x \in ExercisedAt(obj, BoundaryKind, i) :
                         IF BoundaryKind = "call" THEN ret.v[i][1] <= x
                         ELSE ret.v[i][1] >= x

\* A put boundary with a step at which two nodes exercise and a step at
\* which none does.
C24_Witness ==
    /\ BoundaryReturned
    /\ BoundaryKind = "put"
    /\ \E i, k \in 0..(obj.N - 1) :
          /\ Cardinality(ExercisedAt(obj, "put", i)) >= 2
          /\ ret.v[i] # << >>
          /\ ret.v[k] = << >>

(***************************************************************************)
(* The stock lattice                                                       *)
(***************************************************************************)

\* A pricing method of a tree of a valid contract is running; its stock
\* tree is the local stock_tree.
TreeBuilt == ValidTree /\ pc = "induct"

\* Two prices agree to the tolerance of a price comparison.
Close(a, b) == Abs(a - b) <= Tolerance

\* C25: in the stock tree of a pricing method the root is S, the step to the
\* node above multiplies the price by u and the step to the node below by
\* d, with d = 1 / u; an up move and a down move, in either order, lead back
\* to the same price, stock[i+2][j+1] = stock[i][j]; the entries right of
\* the diagonal are left at zero.
C25_StockLattice ==
    TreeBuilt =>
        /\ loc.stock_tree[0][0] = obj.S
        /\ Abs(Mul(obj.u, obj.d) - SCALE) <= 1
        /\ obj.u > SCALE /\ obj.d < SCALE
        /\ \A i \in 0..(obj.N - 1) : \A j \in 0..i :
              /\ Close(loc.stock_tree[i + 1][j + 1], Mul(loc.stock_tree[i][j], obj.u))
              /\ Close(loc.stock_tree[i + 1][j], Mul(loc.stock_tree[i][j], obj.d))
        /\ \A i \in 0..(obj.N - 2) : \A j \in 0..i :
              Close(loc.stock_tree[i + 2][j + 1], loc.stock_tree[i][j])
        /\ \A i \in 0..obj.N : \A j \in (i + 1)..obj.N : loc.stock_tree[i][j] = 0

\* A tree of three steps was built: the price two up moves above the root
\* is higher than S, and the node reached by one up and one down move from
\* the first step is back at the price of that step.
C25_Witness ==
    /\ TreeBuilt
    /\ obj.N = 3
    /\ loc.stock_tree[2][2] > obj.S + SCALE
    /\ loc.stock_tree[1][1] > obj.S
    /\ Close(loc.stock_tree[3][2], loc.stock_tree[1][1])

(***************************************************************************)
(* Active paths of a barrier option                                        *)
(***************************************************************************)

\* The path crosses the barrier at step k: at or above an up barrier, at or
\* below a down barrier.
CrossesAt(args, path, k) ==
    IF args.barrier_type \in {"up-and-out", "up-and-in"}
    THEN path[k] >= args.barrier_level
    ELSE path[k] <= args.barrier_level

\* The path is active: a knock-out path that crosses at no monitored step,
\* a knock-in path that crosses at one at least.
ActivePath(args, path) ==
    IF args.barrier_type \in {"up-and-out", "down-and-out"}
    THEN \A k \in 1..Len(path) : ~CrossesAt(args, path, k)
    ELSE \E k \in 1..Len(path) : CrossesAt(args, path, k)

\* What a path contributes: nothing when inactive, else the vanilla payoff
\* at its terminal price.
Contribution(c, args, path) ==
    IF ~ActivePath(args, path) THEN 0
    ELSE IF args.option_type = "call" THEN Max(path[Len(path)] - c.K, 0)
    ELSE Max(c.K - path[Len(path)], 0)

\* The pair a barrier call returns when its paths contribute as above.
BarrierEstimate(c, args, paths) ==
    Estimate(Discounted(Exp(-Mul(c.r, c.T)),
                        [i \in DOMAIN paths |-> Contribution(c, args, paths[i])]))

\* C26: the (price, standard_error) a barrier call returns is the estimate
\* over its simulated paths in which a knock-out path counts exactly when
\* it crosses the barrier at no monitored step and a knock-in path exactly
\* when it crosses at one at least, an inactive path contributes zero and
\* an active path the vanilla payoff at its terminal price.
C26_BarrierActivity ==
    BarrierReturned =>
        ret.v = BarrierEstimate(obj, call.args,
                                SimulatedPaths(obj, call.args, loc.state))

\* A down-and-in call returned a positive price from a path set with an
\* active path that pays and a path that stayed above the barrier.
C26_Witness ==
    /\ BarrierReturned
    /\ PositiveContract(obj)
    /\ call.args.barrier_type = "down-and-in"
    /\ ret.v.price > 0
    /\ \E i, k \in DOMAIN SimulatedPaths(obj, call.args, loc.state) :
          /\ ActivePath(call.args, SimulatedPaths(obj, call.args, loc.state)[i])
          /\ Contribution(obj, call.args,
                          SimulatedPaths(obj, call.args, loc.state)[i]) > 0
          /\ ~ActivePath(call.args, SimulatedPaths(obj, call.args, loc.state)[k])

(***************************************************************************)
(* Where calculate_breakeven_points reports a crossing                     *)
(***************************************************************************)

\* The grid intervals k (between the samples k and k + 1 of the grid x)
\* across which the payoff changes from below zero to above zero or back:
\* neither end is zero.
SignChanges(s, x, premium) ==
    { k \in 1..(GridSize - 1) :
        \/ PayoffAt(s.legs, premium, x[k]) < 0 /\ PayoffAt(s.legs, premium, x[k + 1]) > 0
        \/ PayoffAt(s.legs, premium, x[k]) > 0 /\ PayoffAt(s.legs, premium, x[k + 1]) < 0 }

\* The list b has one entry for each interval of K, in the order of the
\* grid, each strictly inside its interval.
OnePerInterval(b, x, K) ==
    /\ Len(b) = Cardinality(K)
    /\ \A k \in K :
          /\ x[k] < b[Cardinality({j \in K : j <= k})]
          /\ b[Cardinality({j \in K : j <= k})] < x[k + 1]

\* C27: calculate_breakeven_points returns one breakeven for each pair of
\* adjacent samples of the grid over [0.5 S, 1.5 S] whose payoffs have
\* strictly opposite signs, and nothing else: none where the payoff is 0 at
\* a sample, none outside the grid.  Each entry lies strictly between its
\* two samples and the list is strictly increasing.
C27_CrossingsOnly ==
    StrategyReturned("calculate_breakeven_points") =>
        /\ OnePerInterval(ret.v, BreakevenGrid(obj),
                          SignChanges(obj, BreakevenGrid(obj), NetPremium(obj)))
        /\ \A n \in 1..(Len(ret.v) - 1) : ret.v[n] < ret.v[n + 1]
        /\ \A n \in 1..Len(ret.v) :
              obj.S \div 2 < ret.v[n] /\ ret.v[n] < obj.S + obj.S \div 2

\* The payoff of the strategy is 0 at the sample k of the grid x.
ZeroAtSample(s, x, premium, k) == PayoffAt(s.legs, premium, x[k]) = 0

\* No breakeven was returned for a strategy of two legs at the money that
\* cost nothing together and whose payoff is 0 at a sample of the grid.
C27_Witness ==
    /\ StrategyReturned("calculate_breakeven_points")
    /\ Len(obj.legs) = 2
    /\ obj.legs[1].strike = obj.S /\ obj.legs[2].strike = obj.S
    /\ ret.v = << >>
    /\ \E k \in 1..GridSize : ZeroAtSample(obj, BreakevenGrid(obj), NetPremium(obj), k)

\* No breakeven was returned for a strategy whose payoff is below zero on
\* the whole grid and above zero at three times the stock price.
C27_WitnessOutside ==
    /\ StrategyReturned("calculate_breakeven_points")
    /\ ret.v = << >>
    /\ \A k \in 1..GridSize : PayoffAt(obj.legs, NetPremium(obj), BreakevenGrid(obj)[k]) < 0
    /\ PayoffAt(obj.legs, NetPremium(obj), 3 * obj.S) > 0

\* Two breakevens were returned in increasing order.
C27_WitnessTwo ==
    /\ StrategyReturned("calculate_breakeven_points")
    /\ Len(ret.v) = 2
    /\ ret.v[1] < ret.v[2]

(***************************************************************************)
(* Barriers at or beyond the starting price                                *)
(***************************************************************************)

\* The barrier of the call is crossed by the starting price S itself: an up
\* barrier at or below S, a down barrier at or above S.
CrossedAtStart ==
    IF call.args.barrier_type \in {"up-and-out", "up-and-in"}
    THEN call.args.barrier_level <= obj.S
    ELSE call.args.barrier_level >= obj.S

\* The estimate of the vanilla option over the paths of the call.
VanillaEstimate(c, args, paths) ==
    Estimate(Discounted(Exp(-Mul(c.r, c.T)), VanillaPayoffs(c, args, paths)))

\* C28: the starting price is monitored and touching is crossing: a barrier
\* call whose up barrier is at or below S, or whose down barrier is at or
\* above S, returns price 0 and standard error 0 for a knock-out option, and
\* for a knock-in option the estimate in which every path pays the vanilla
\* payoff.
C28_StartMonitored ==
    (BarrierReturned /\ CrossedAtStart) =>
        IF call.args.barrier_type \in {"up-and-out", "down-and-out"}
        THEN ret.v = [price |-> 0, standard_error |-> 0]
        ELSE ret.v = VanillaEstimate(obj, call.args,
                                     SimulatedPaths(obj, call.args, loc.state))

\* An up-and-in call with the barrier exactly at S returned a positive
\* price, on a path set with a path that never rose above S.
C28_Witness ==
    /\ BarrierReturned
    /\ PositiveContract(obj)
    /\ call.args.barrier_type = "up-and-in"
    /\ call.args.barrier_level = obj.S
    /\ ret.v.price > 0
    /\ \E i \in DOMAIN SimulatedPaths(obj, call.args, loc.state) :
          \A k \in DOMAIN SimulatedPaths(obj, call.args, loc.state)[i] :
              SimulatedPaths(obj, call.args, loc.state)[i][k] <= obj.S

\* A down-and-out put with the barrier above S returned (0, 0) although
\* some path ends in the money.
C28_WitnessKnockedOut ==
    /\ BarrierReturned
    /\ PositiveContract(obj)
    /\ call.args.barrier_type = "down-and-out"
    /\ call.args.barrier_level > obj.S
    /\ ret.v = [price |-> 0, standard_error |-> 0]
    /\ \E i \in DOMAIN SimulatedPaths(obj, call.args, loc.state) :
          VanillaPayoffs(obj, call.args, SimulatedPaths(obj, call.args, loc.state))[i] > 0

(***************************************************************************)
(* Calls are not exercised early                                           *)
(***************************************************************************)

\* The pricing method that values the option kind of the boundary call.
BoundaryPricer ==
    IF BoundaryKind = "call" THEN "price_american_call" ELSE "price_american_put"

\* The root of the option tree get_early_exercise_boundary filled is the
\* price the caller received from the American pricing method of the kind.
SameRoot ==
    (BoundaryReturned /\ Received(BoundaryPricer)) =>
        loc.option_tree[0][0] = res[BoundaryPricer]

\* Every step of the boundary returned is None.
NoBoundary == \A i \in DOMAIN ret.v : ret.v[i] = << >>

\* C29: for 'call' on a tree with r >= 0 the boundary is None at every step
\* 0..N-1, and the root of the values the method computes is the price of
\* price_american_call / price_american_put.
C29_Original ==
    /\ (BoundaryReturned /\ call.option_type = "call" /\ obj.r >= 0) => NoBoundary
    /\ SameRoot

\* What holds of the lattice: for 'call' on a tree with r > 0 the boundary
\* is None at every step 0..N-1, and for either option type the root of the
\* values the method computes is the price of price_american_call /
\* price_american_put.
C29_CallNeverExercised ==
    /\ (BoundaryReturned /\ call.option_type = "call" /\ obj.r > 0) =>
          /\ DOMAIN ret.v = 0..(obj.N - 1)
          /\ NoBoundary
    /\ SameRoot

\* A call boundary on a tree with r > 0 and an in-the-money node, after
\* price_american_call and price_european_call returned the same price.
C29_Witness ==
    /\ BoundaryReturned
    /\ call.option_type = "call"
    /\ obj.r > 0
    /\ obj.N > 1
    /\ \E i \in 0..(obj.N - 1), j \in 0..(obj.N - 1) :
          j <= i /\ ExerciseValue(obj, "call", i, j) > 0
    /\ Received("price_american_call")
    /\ Received("price_european_call")
    /\ res["price_american_call"] = res["price_european_call"]
    /\ loc.option_tree[0][0] = res["price_american_call"]

\* A put boundary with an exercised step whose root is the price
\* price_american_put returned.
C29_WitnessPut ==
    /\ BoundaryReturned
    /\ BoundaryKind = "put"
    /\ ~NoBoundary
    /\ Received("price_american_put")
    /\ loc.option_tree[0][0] = res["price_american_put"]
    /\ res["price_american_put"] > 0

\* A call boundary on a tree with r = 0 that is not None at some step.
C29_WitnessZeroRate ==
    /\ BoundaryReturned
    /\ call.option_type = "call"
    /\ obj.r = 0
    /\ ~NoBoundary

(***************************************************************************)
(* Legs with other strings                                                 *)
(***************************************************************************)

\* The leg read as the three calculations read it: short unless its
\* position is 'long', a put unless its option_type is 'call'.
AsRead(leg) ==
    [leg EXCEPT !.position = IF @ = "long" THEN "long" ELSE "short",
                !.option_type = IF @ = "call" THEN "call" ELSE "put"]

\* The strategy with every leg replaced by its reading.
StrategyAsRead(s) == [s EXCEPT !.legs = [k \in DOMAIN s.legs |-> AsRead(s.legs[k])]]

\* A leg whose position or option_type is none of the documented strings.
OddLeg(leg) ==
    leg.position \notin {"long", "short"} \/ leg.option_type \notin {"call", "put"}

\* calculate_total_premium, calculate_payoff or calculate_total_greeks has
\* returned to the caller of a strategy.
LegsCalculated ==
    /\ obj.cls = "OptionStrategy"
    /\ pc = "idle"
    /\ call.op \in {"calculate_total_premium", "calculate_payoff", "calculate_total_greeks"}

\* C30: calculate_total_premium, calculate_payoff and calculate_total_greeks
\* never raise because of a leg's position or option_type: each returns what
\* it returns for the strategy whose legs with a position other than 'long'
\* are short and whose legs with an option_type other than 'call' are puts,
\* and raises only where that strategy raises.
C30_LegsAsRead ==
    LegsCalculated =>
        /\ ret.kind = "raise" <=> StrategyInvalid(StrategyAsRead(obj))
        /\ ret.kind = "value" =>
              ret.v = StrategyResult(StrategyAsRead(obj), call.op, call.args)

\* calculate_payoff returned for the single leg OptionLeg('Call', 100,
\* 'Long'): the payoff of a short put, ten lower at 90 than at the strike
\* and flat above it, with the premium received.
C30_Witness ==
    /\ LegsCalculated
    /\ call.op = "calculate_payoff"
    /\ Len(obj.legs) = 1
    /\ OddLeg(obj.legs[1])
    /\ ret.kind = "value"
    /\ Len(ret.v) = 5
    /\ ret.v[2] > 0
    /\ ret.v[1] = ret.v[2] - 10 * SCALE
    /\ ret.v[5] = ret.v[2]

\* calculate_total_premium returned a credit for that leg alone.
C30_WitnessPremium ==
    /\ LegsCalculated
    /\ call.op = "calculate_total_premium"
    /\ Len(obj.legs) = 1
    /\ OddLeg(obj.legs[1])
    /\ ret.kind = "value"
    /\ ret.v < 0

\* calculate_total_greeks returned the Greeks of a short put for that leg
\* alone: a positive delta and a negative gamma.
C30_WitnessGreeks ==
    /\ LegsCalculated
    /\ call.op = "calculate_total_greeks"
    /\ Len(obj.legs) = 1
    /\ OddLeg(obj.legs[1])
    /\ ret.kind = "value"
    /\ ret.v["delta"] > 0
    /\ ret.v["gamma"] < 0

====
